---------------------------- MODULE Spec2Model ----------------------------
(***************************************************************************)
(* The resilient request core of minio-sentinel-mcp: MinIOClient           *)
(* (src/minio_client.py), KeycloakAuth (src/auth.py) and the login and     *)
(* refresh tools (src/tools/auth_tools.py).                                *)
(*                                                                         *)
(* The program runs on one asyncio event loop: code between two awaits of  *)
(* a network call or a sleep is one atomic step.  Each action below is the *)
(* code from one such suspension point to the next.                        *)
(*                                                                         *)
(* Strings of the program are modelled by small integers: access tokens,   *)
(* refresh tokens and correlation ids are positive numbers, 0 is None.     *)
(***************************************************************************)
EXTENDS Integers, Sequences, FiniteSets, TLC

(* ------------------------------ bounds -------------------------------- *)
\* token responses the identity provider issues in one behaviour
MaxTokens == 2
\* no request() call is started later than MaxStart seconds after Init
MaxStart == 0

\* the clock of the direct calls of KeycloakAuth stops here
MaxNow == 1

\* asyncio.Queue objects created in one behaviour
MaxQueues == 2

\* events publishers put on the Queues that exist at one time
MaxSent == 2

\* frames of one generator beyond which it emits no heartbeat
MaxFrames == 2

\* SecurityConfig.max_requests_per_minute and max_requests_per_hour of the
\* RateLimiter under test (the defaults are 60 and 1000)
max_requests_per_minute == 2
max_requests_per_hour == 3

(* ------------------------- program constants -------------------------- *)
\* MinIOClient._retry_count
RetryCount == 3
\* MinIOClient._retry_delay, in seconds
RetryDelay == 1
\* the skew of KeycloakAuth.is_token_expired, in seconds
ExpirySkew == 60
\* the windows of RateLimiter.is_allowed, in seconds
MinuteWindow == 60
HourWindow == 3600

(* ------------------------------ inputs -------------------------------- *)
\* the request() calls that may be in progress
CallIds == {1, 2}
\* the one in progress when the client's calls do not overlap
SequentialCalls == {1}
\* status codes the wrapped service answers with
Statuses == {200, 304, 401, 404, 500, 503}
\* what the body of a response is: JSON that parses, a body declared JSON
\* that does not parse, or text of another content type
Bodies == {"json", "badjson", "text"}
\* httpx.RequestError instances (connect error, read timeout)
NetErrors == {1, 2}
\* which of json_data / data / files the caller passes to request()
Payloads == {"none", "json", "data", "files"}
\* expires_in values of the provider's token responses, in seconds
ExpiresIn == {60, 61, 300}
\* refresh tokens a user passes to minio_refresh_token
RefreshInputs == 1 .. MaxTokens
\* how a token or userinfo request to the identity provider can fail
AuthFailures == {"rejected", "unreachable", "malformed"}

\* the coroutine that calls the methods of KeycloakAuth directly
AuthIds == {1}

\* the access tokens validate_token is called with
AccessTokens == 1 .. MaxTokens

\* how the userinfo endpoint answers validate_token
EndpointAnswers == {"accepted"} \cup AuthFailures

\* the role claims in the payload of a token: they decode to lists, or the
\* token does not decode, or it decodes and realm_access.roles is no list
RoleClaims == {"decoded", "undecodable", "malformed_roles"}

VARIABLES
    now,             \* time.time(), in seconds
    token_cache,     \* KeycloakAuth._token_cache
    user_cache,      \* KeycloakAuth._user_cache
    current_token,   \* MinIOClient._current_token
    issued,          \* token responses issued by the identity provider so far
    pc,              \* per call: where the request() coroutine is suspended
    attempt,         \* per call: the loop variable of _retry_request
    headers,         \* per call: kwargs["headers"]
    correlation_id,  \* per call: the local correlation_id of request()
    last_exception,  \* per call: the local last_exception of _retry_request
    wake_at,         \* per call: when the pending asyncio.sleep ends
    refresh_arg,     \* per call: the refresh token of the pending refresh
    result,          \* per call: what request() returned or raised
    sent,            \* per call: the headers of each attempt made so far
    outcomes,        \* per call: how each attempt made so far has ended
    refreshes,       \* per call: refresh_token calls started so far
    trace,           \* per call: what the call did since its latest attempt
                     \*           ended, that end included
    tool_pc,         \* where the login / refresh tool coroutine is suspended
    tool_arg,        \* the refresh_token argument of minio_refresh_token
    tool_token,      \* the tool's local token_info.access_token
    a_pc,            \* per direct caller of KeycloakAuth: the method it is in
    a_arg,           \* per direct caller: the token it passed to the method
    a_result,        \* per direct caller: what the method returned or raised
    a_posts,         \* per direct caller: requests made to the provider
    connections,     \* SSEConnectionManager: connection id -> its Queue, 0
                     \*                       when the id is not a key
    connection_info, \* SSEConnectionManager: connection id -> its metadata
    queues,          \* the asyncio.Queue objects: their content
    enqueued,        \* per Queue: every event ever put on it, in put order
    qnext,           \* Queue objects created so far
    s_pc,            \* per get_events generator: where it is suspended
    s_conn,          \* per generator: its connection_id
    s_queue,         \* per generator: the Queue it took at its start
    s_out,           \* per generator: the frames it has yielded
    e_event,         \* the SSEEvent last given to to_sse_format
    e_wire,          \* what to_sse_format returned for it
    rl_clock,        \* time.time() as the RateLimiter reads it
    rl_requests,     \* RateLimiter.requests: client id -> recorded times
    rl_allowed,      \* per client id: the time of every call allowed so far
    rl_result        \* per client id: what is_allowed returned last

authVars == <<token_cache, user_cache, current_token, issued>>
callVars == <<pc, attempt, headers, correlation_id, last_exception,
              wake_at, refresh_arg, result, sent, outcomes,
              refreshes, trace>>
toolVars == <<tool_pc, tool_arg, tool_token>>
methodVars == <<a_pc, a_arg, a_result, a_posts>>
sseVars == <<connections, connection_info, queues, enqueued, qnext,
            s_pc, s_conn, s_queue, s_out>>
utilVars == <<e_event, e_wire, rl_clock, rl_requests, rl_allowed, rl_result>>
otherVars == <<methodVars, sseVars, utilVars>>
vars == <<now, authVars, callVars, toolVars, otherVars>>

(* ------------------------------ values -------------------------------- *)
\* TokenInfo; access = 0 stands for None
NoToken == [access |-> 0, refresh |-> 0, expires_in |-> 0, expires_at |-> 0]

\* UserInfo; username = 0 stands for None.  of_token records the access
\* token validate_token derived it from.
NoUser == [username |-> 0, roles |-> "none", of_token |-> 0]

\* the headers of a call that has not built any
NoHeaders == [content_type |-> "absent", accept |-> "absent",
              correlation |-> 0, user_agent |-> "absent", authorization |-> 0]

\* request() has neither returned nor raised
NoResult == [kind |-> "none", success |-> FALSE, status_code |-> 0,
             error |-> "none", correlation_id |-> 0, cause |-> 0]

\* the connection ids callers use
ConnIds == {1, 2}

\* the asyncio.Queue objects
QueueIds == 1 .. MaxQueues

\* the consumers; each runs one get_events generator at a time
StreamIds == {1}

\* connection_info has no entry for the id
NoInfo == [present |-> FALSE, events_sent |-> 0]

\* SSEEvent; serializable tells whether json.dumps accepts its data
SSEEvent(type, id, serializable) ==
    [type |-> type, id |-> id, serializable |-> serializable]

\* a frame a generator yields.  seq is, for an event, its position in the
\* put order of the generator's Queue and, for a heartbeat, the number of
\* events put on that Queue when the heartbeat was produced.
Frame(type, id, seq) == [type |-> type, id |-> id, seq |-> seq]

\* no SSEEvent has been formatted yet
NoEvent == [type |-> "none", data |-> <<>>, timestamp |-> 0, event_id |-> 0,
            retry |-> 0]

\* to_sse_format has returned nothing yet
NoWire == [raised |-> "none", id |-> 0, event |-> "none", retry |-> 0,
           data |-> <<>>]

\* the client ids the RateLimiter is asked about
ClientIds == {1, 2}

\* RateLimiter.requests has no key for the client id
NoRequests == [present |-> FALSE, times |-> <<>>]

\* is_allowed has not been called for the client id
NoVerdict == [allowed |-> FALSE, remaining |-> -1]

\* a KeycloakAuth method has neither returned nor raised
NoAuthResult == [kind |-> "none", handler |-> "none", token |-> NoToken,
                 user |-> NoUser, given_refresh |-> 0, endpoint |-> "none",
                 claims |-> "none"]

\* an entry of the history of a call
Event(ev, n, val, hdr) == [ev |-> ev, n |-> n, val |-> val, hdr |-> hdr]


(* --------------------------- KeycloakAuth ----------------------------- *)
\* is_token_expired with a strict comparison
is_token_expired_Strict(token_info) ==
    now + ExpirySkew > token_info.expires_at

\* KeycloakAuth.is_token_expired
is_token_expired(token_info) == now + ExpirySkew >= token_info.expires_at

\* the TokenInfo that login and refresh_token build from a token response
\* received at time `now`
TokenInfo(access, refresh, expires_in) ==
    [access |-> access, refresh |-> refresh, expires_in |-> expires_in,
     expires_at |-> now + expires_in]

\* KeycloakAuth.login: the TokenInfo of a successful login; the provider
\* issues access and refresh token number issued + 1
login_token(expires_in) == TokenInfo(issued + 1, issued + 1, expires_in)

\* refresh_token ignoring the refresh token of the response
refreshed_token_KeepInput(rt, with_refresh, expires_in) ==
    TokenInfo(issued + 1, rt, expires_in)

\* KeycloakAuth.refresh_token: the TokenInfo of a successful refresh with the
\* refresh token rt; the response carries a new refresh token or none
refreshed_token(rt, with_refresh, expires_in) ==
    TokenInfo(issued + 1, IF with_refresh THEN issued + 1 ELSE rt, expires_in)

\* KeycloakAuth.validate_token: the UserInfo built for the access token tok;
\* when decoding the token's claims fails the roles are empty
validated_user(tok, decoded) ==
    [username |-> 1, roles |-> IF decoded THEN "decoded" ELSE "empty",
     of_token |-> tok]

(* ---------------------------- MinIOClient ----------------------------- *)
\* MinIOClient._generate_correlation_id: "mcp-" and eight hex digits of a
\* uuid4.  The code only copies the value, so one value stands for all.
_generate_correlation_id == 1

\* MinIOClient._build_headers, called without additional headers (no caller
\* in the repository passes any)
_build_headers(cid) ==
    [content_type |-> "application/json", accept |-> "application/json",
     correlation |-> cid, user_agent |-> "mcp",
     authorization |-> current_token]

\* request(): the headers of the call once the body arguments are prepared.
\* Content-Type is always present after _build_headers, so the octet-stream
\* default of the raw-body branch never applies; files remove Content-Type.
request_headers(cid, payload) ==
    IF payload = "files"
    THEN [_build_headers(cid) EXCEPT !.content_type = "absent"]
    ELSE _build_headers(cid)

\* the loop of _retry_request with one iteration too many
HasNextAttempt_OneMore(att) == att + 1 < RetryCount + 1

\* _retry_request: range(self._retry_count) has an iteration after att
HasNextAttempt(att) == att + 1 < RetryCount

\* _retry_request: a client error that is returned at once
IsClientError(status) == 400 <= status /\ status < 500 /\ status # 401

\* _retry_request: a 401 that is followed by a token refresh and a retry
IsAuthRetry(status, att) == status = 401 /\ att < RetryCount - 1

\* _retry_request giving up on a server error one attempt early
IsServerRetry_Short(status, att) == status >= 500 /\ att < RetryCount - 2

\* _retry_request: a server error that is followed by a sleep and a retry
IsServerRetry(status, att) == status >= 500 /\ att < RetryCount - 1

\* _retry_request retrying every error status, 4xx like 5xx
RetryDecision_AllErrors(status, att) ==
    IF status = 401 /\ att < RetryCount - 1 THEN "refresh"
    ELSE IF status >= 400 /\ att < RetryCount - 1 THEN "backoff"
    ELSE "return"

\* _retry_request: what follows a response: it is returned, or the token is
\* refreshed and the loop continues, or the loop sleeps and continues
RetryDecision(status, att) ==
    IF IsClientError(status) THEN "return"
    ELSE IF IsAuthRetry(status, att) THEN "refresh"
    ELSE IF IsServerRetry(status, att) THEN "backoff"
    ELSE "return"

\* _retry_request: a network error that is followed by a sleep and a retry
IsNetworkRetry(att) == att < RetryCount - 1

\* _retry_request sleeping the base delay whatever the attempt
BackoffDelay_Constant(att) == RetryDelay

\* _retry_request: the argument of asyncio.sleep after attempt att
BackoffDelay(att) == RetryDelay * (2 ^ att)

\* how an attempt that got a response ended
OutcomeClass(status) ==
    IF status = 401 THEN "auth"
    ELSE IF 400 <= status /\ status < 500 THEN "client"
    ELSE IF status >= 500 THEN "server"
    ELSE "ok"

\* _refresh_token_if_needed: a token is cached and is_token_expired
NeedsRefresh(current_token_info) ==
    current_token_info # NoToken /\ is_token_expired(current_token_info)

\* _retry_request replacing the headers by a dict with Authorization alone
UpdatedHeaders_Replaced(hdr, tok) ==
    IF tok # 0 THEN [NoHeaders EXCEPT !.authorization = tok] ELSE hdr

\* _retry_request: the Authorization header after _refresh_token_if_needed
\* returned, given the value tok of self._current_token at that point
UpdatedHeaders(hdr, tok) ==
    IF tok # 0 THEN [hdr EXCEPT !.authorization = tok] ELSE hdr

\* MinIOClient._handle_response
_handle_response(status, body, cid) ==
    IF body = "badjson"
    THEN [kind |-> "response", success |-> FALSE, status_code |-> status,
          error |-> "parsing", correlation_id |-> cid, cause |-> 0]
    ELSE IF 200 <= status /\ status < 300
    THEN [kind |-> "response", success |-> TRUE, status_code |-> status,
          error |-> "none", correlation_id |-> cid, cause |-> 0]
    ELSE [kind |-> "response", success |-> FALSE, status_code |-> status,
          error |-> "api", correlation_id |-> cid, cause |-> 0]

\* request() returning every APIResponse, whatever its status
ResponseOutcome_ReturnAll(status, body, cid) ==
    _handle_response(status, body, cid)

\* request(): what the call returns or raises once _retry_request returned a
\* response
ResponseOutcome(status, body, cid) ==
    LET api_response == _handle_response(status, body, cid) IN
    IF ~api_response.success /\ status >= 400
    THEN [kind |-> "error", success |-> FALSE, status_code |-> status,
          error |-> api_response.error, correlation_id |-> cid, cause |-> 0]
    ELSE api_response

\* _retry_request remembering the first exception it caught
CaughtException_KeepFirst(last, e) == IF last # 0 THEN last ELSE e

\* _retry_request: the value of last_exception once e is caught
CaughtException(last, e) == e

\* _retry_request: the MinIOAPIError raised after the loop; request() passes
\* it on unchanged
ExhaustedFailure(last) ==
    [kind |-> "error", success |-> FALSE, status_code |-> 0,
     error |-> "network", correlation_id |-> 0, cause |-> last]

\* request(): the MinIOAPIError built from any other exception
UnexpectedFailure(cid) ==
    [kind |-> "error", success |-> FALSE, status_code |-> 0,
     error |-> "unexpected", correlation_id |-> cid, cause |-> 0]

(* ------------------------------- Init --------------------------------- *)
\* KeycloakAuth.__init__ and MinIOClient.__init__: nothing cached, no call
\* and no tool in progress
Init ==
    /\ now = 0
    /\ token_cache = NoToken
    /\ user_cache = NoUser
    /\ current_token = 0
    /\ issued = 0
    /\ pc = [c \in CallIds |-> "idle"]
    /\ attempt = [c \in CallIds |-> 0]
    /\ headers = [c \in CallIds |-> NoHeaders]
    /\ correlation_id = [c \in CallIds |-> 0]
    /\ last_exception = [c \in CallIds |-> 0]
    /\ wake_at = [c \in CallIds |-> 0]
    /\ refresh_arg = [c \in CallIds |-> 0]
    /\ result = [c \in CallIds |-> NoResult]
    /\ sent = [c \in CallIds |-> <<>>]
    /\ outcomes = [c \in CallIds |-> <<>>]
    /\ refreshes = [c \in CallIds |-> 0]
    /\ trace = [c \in CallIds |-> <<>>]
    /\ tool_pc = "idle"
    /\ tool_arg = 0
    /\ tool_token = 0
    /\ a_pc = [k \in AuthIds |-> "idle"]
    /\ a_arg = [k \in AuthIds |-> 0]
    /\ a_result = [k \in AuthIds |-> NoAuthResult]
    /\ a_posts = [k \in AuthIds |-> 0]
    /\ connections = [c \in ConnIds |-> 0]
    /\ connection_info = [c \in ConnIds |-> NoInfo]
    /\ queues = [q \in QueueIds |-> <<>>]
    /\ enqueued = [q \in QueueIds |-> <<>>]
    /\ qnext = 0
    /\ s_pc = [g \in StreamIds |-> "idle"]
    /\ s_conn = [g \in StreamIds |-> 0]
    /\ s_queue = [g \in StreamIds |-> 0]
    /\ s_out = [g \in StreamIds |-> <<>>]
    /\ e_event = NoEvent
    /\ e_wire = NoWire
    /\ rl_clock = 0
    /\ rl_requests = [c \in ClientIds |-> NoRequests]
    /\ rl_allowed = [c \in ClientIds |-> <<>>]
    /\ rl_result = [c \in ClientIds |-> NoVerdict]

(* ------------------------ MinIOClient.request ------------------------- *)
\* _retry_request: attempt att awaits self.client.request with the headers
\* hdr; evs is what the step did before, last the value of last_exception
SendNext(c, att, hdr, evs, last) ==
    /\ pc' = [pc EXCEPT ![c] = "sending"]
    /\ attempt' = [attempt EXCEPT ![c] = att]
    /\ headers' = [headers EXCEPT ![c] = hdr]
    /\ last_exception' = [last_exception EXCEPT ![c] = last]
    /\ sent' = [sent EXCEPT ![c] = Append(@, hdr)]
    /\ trace' = [trace EXCEPT ![c] = Append(evs, Event("send", att, 0, hdr))]
    /\ UNCHANGED <<correlation_id, wake_at, refresh_arg, result>>

\* _retry_request: the loop awaits asyncio.sleep after attempt att
Backoff(c, att, evs, last) ==
    /\ pc' = [pc EXCEPT ![c] = "sleeping"]
    /\ wake_at' = [wake_at EXCEPT ![c] = now + BackoffDelay(att)]
    /\ last_exception' = [last_exception EXCEPT ![c] = last]
    /\ trace' = [trace EXCEPT ![c] =
                    Append(evs, Event("sleep", att, BackoffDelay(att),
                                      NoHeaders))]
    /\ UNCHANGED <<attempt, headers, correlation_id, refresh_arg, result,
                   sent>>

\* request() returns or raises res; its local variables and those of
\* _retry_request are gone
Finish(c, res, evs) ==
    /\ pc' = [pc EXCEPT ![c] = "done"]
    /\ result' = [result EXCEPT ![c] = res]
    /\ trace' = [trace EXCEPT ![c] = evs]
    /\ attempt' = [attempt EXCEPT ![c] = 0]
    /\ headers' = [headers EXCEPT ![c] = NoHeaders]
    /\ correlation_id' = [correlation_id EXCEPT ![c] = 0]
    /\ last_exception' = [last_exception EXCEPT ![c] = 0]
    /\ wake_at' = [wake_at EXCEPT ![c] = 0]
    /\ refresh_arg' = [refresh_arg EXCEPT ![c] = 0]
    /\ UNCHANGED sent

\* _retry_request: the for loop goes to its next iteration, or ends and the
\* MinIOAPIError after it is raised
LoopNext(c, hdr, evs, last) ==
    IF HasNextAttempt(attempt[c])
    THEN SendNext(c, attempt[c] + 1, hdr, evs, last)
    ELSE Finish(c, ExhaustedFailure(last), evs)

\* request() is called: correlation id, headers, and the first attempt is
\* sent
StartRequest(c, payload) ==
    /\ pc[c] \in {"idle", "done"}
    /\ now <= MaxStart
    /\ LET cid == _generate_correlation_id
           hdr == request_headers(cid, payload)
       IN
       /\ correlation_id' = [correlation_id EXCEPT ![c] = cid]
       /\ headers' = [headers EXCEPT ![c] = hdr]
       /\ sent' = [sent EXCEPT ![c] = <<hdr>>]
       /\ trace' = [trace EXCEPT ![c] = <<Event("send", 0, 0, hdr)>>]
    /\ pc' = [pc EXCEPT ![c] = "sending"]
    /\ attempt' = [attempt EXCEPT ![c] = 0]
    /\ last_exception' = [last_exception EXCEPT ![c] = 0]
    /\ result' = [result EXCEPT ![c] = NoResult]
    /\ wake_at' = [wake_at EXCEPT ![c] = 0]
    /\ refresh_arg' = [refresh_arg EXCEPT ![c] = 0]
    /\ outcomes' = [outcomes EXCEPT ![c] = <<>>]
    /\ refreshes' = [refreshes EXCEPT ![c] = 0]
    /\ UNCHANGED <<now, authVars, toolVars, otherVars>>

\* self.client.request returns a response with this status and body
RecvResponse(c, status, body) ==
    /\ pc[c] = "sending"
    /\ outcomes' = [outcomes EXCEPT ![c] = Append(@, OutcomeClass(status))]
    /\ UNCHANGED <<now, authVars, toolVars, otherVars>>
    /\ LET att == attempt[c]
           evs == <<Event("recv", att, status, NoHeaders)>>
       IN
       IF RetryDecision(status, att) = "refresh"
       THEN \* _refresh_token_if_needed
            IF NeedsRefresh(token_cache)
            THEN /\ pc' = [pc EXCEPT ![c] = "refreshing"]
                 /\ refresh_arg' = [refresh_arg EXCEPT ![c] = token_cache.refresh]
                 /\ refreshes' = [refreshes EXCEPT ![c] = @ + 1]
                 /\ trace' = [trace EXCEPT ![c] =
                        Append(evs, Event("refresh", att, token_cache.refresh,
                                          NoHeaders))]
                 /\ UNCHANGED <<attempt, headers, correlation_id,
                                last_exception, wake_at, result, sent>>
            ELSE /\ LoopNext(c, UpdatedHeaders(headers[c], current_token),
                             evs, last_exception[c])
                 /\ UNCHANGED refreshes
       ELSE IF RetryDecision(status, att) = "backoff"
       THEN /\ Backoff(c, att, evs, last_exception[c])
            /\ UNCHANGED refreshes
       ELSE /\ Finish(c, ResponseOutcome(status, body, correlation_id[c]), evs)
            /\ UNCHANGED refreshes

\* self.client.request raises the httpx.RequestError e
RecvNetworkError(c, e) ==
    /\ pc[c] = "sending"
    /\ outcomes' = [outcomes EXCEPT ![c] = Append(@, "network")]
    /\ LET att == attempt[c]
           evs == <<Event("neterr", att, e, NoHeaders)>>
           last == CaughtException(last_exception[c], e)
       IN
       IF IsNetworkRetry(att)
       THEN Backoff(c, att, evs, last)
       ELSE LoopNext(c, headers[c], evs, last)
    /\ UNCHANGED <<now, authVars, toolVars, otherVars, refreshes>>

\* self.client.request raises an exception that is no httpx.RequestError: it
\* leaves _retry_request and request() wraps it
RecvUnexpected(c) ==
    /\ pc[c] = "sending"
    /\ outcomes' = [outcomes EXCEPT ![c] = Append(@, "raise")]
    /\ Finish(c, UnexpectedFailure(correlation_id[c]),
              <<Event("raise", attempt[c], 0, NoHeaders)>>)
    /\ UNCHANGED <<now, authVars, toolVars, otherVars, refreshes>>

\* asyncio.sleep returns, at wake_at or later; the loop continues
Wake(c) ==
    /\ pc[c] = "sleeping"
    /\ now' = IF now >= wake_at[c] THEN now ELSE wake_at[c]
    /\ LoopNext(c, headers[c], trace[c], last_exception[c])
    /\ UNCHANGED <<authVars, toolVars, otherVars, outcomes, refreshes>>

\* _refresh_token_if_needed without its set_auth_token call: the cache has
\* the new token and the client keeps the old one
RefreshOk_NoSetToken(c, with_refresh, expires_in) ==
    /\ pc[c] = "refreshing"
    /\ issued < MaxTokens
    /\ LET token_info == refreshed_token(refresh_arg[c], with_refresh,
                                         expires_in)
       IN
       /\ issued' = issued + 1
       /\ token_cache' = token_info
       /\ user_cache' = NoUser
       /\ UNCHANGED current_token
       /\ LoopNext(c, UpdatedHeaders(headers[c], current_token),
                   Append(trace[c], Event("refresh_ok", attempt[c],
                                          token_info.access, NoHeaders)),
                   last_exception[c])
    /\ UNCHANGED <<now, toolVars, otherVars, outcomes, refreshes>>

\* _refresh_token_if_needed: self.auth.refresh_token returns a TokenInfo
\* (the provider's response carries a new refresh token or none); the
\* client's token and the Authorization header are set and the loop continues
RefreshOk(c, with_refresh, expires_in) ==
    /\ pc[c] = "refreshing"
    /\ issued < MaxTokens
    /\ LET token_info == refreshed_token(refresh_arg[c], with_refresh,
                                         expires_in)
       IN
       /\ issued' = issued + 1
       /\ token_cache' = token_info
       /\ user_cache' = NoUser
       /\ current_token' = token_info.access
       /\ LoopNext(c, UpdatedHeaders(headers[c], token_info.access),
                   Append(trace[c], Event("refresh_ok", attempt[c],
                                          token_info.access, NoHeaders)),
                   last_exception[c])
    /\ UNCHANGED <<now, toolVars, otherVars, outcomes, refreshes>>

\* _refresh_token_if_needed: self.auth.refresh_token raises
\* AuthenticationError; the client's token is cleared and the loop continues
RefreshFail(c, why) ==
    /\ pc[c] = "refreshing"
    /\ current_token' = 0
    /\ LoopNext(c, UpdatedHeaders(headers[c], 0),
                Append(trace[c], Event("refresh_fail", attempt[c], 0,
                                       NoHeaders)),
                last_exception[c])
    /\ UNCHANGED <<now, token_cache, user_cache, issued, toolVars, otherVars, outcomes,
                   refreshes>>

(* ------------------- minio_login, minio_refresh_token ----------------- *)
\* minio_login is called and awaits the token request of KeycloakAuth.login
ToolLoginStart ==
    /\ tool_pc = "idle"
    /\ tool_pc' = "login_post"
    /\ tool_arg' = 0
    /\ tool_token' = 0
    /\ UNCHANGED <<now, authVars, callVars, otherVars>>

\* login returns a TokenInfo; the tool sets the client's token and awaits
\* the userinfo request of validate_token
ToolLoginOk(expires_in) ==
    /\ tool_pc = "login_post"
    /\ issued < MaxTokens
    /\ LET token_info == login_token(expires_in) IN
       /\ issued' = issued + 1
       /\ token_cache' = token_info
       /\ user_cache' = NoUser
       /\ current_token' = token_info.access
       /\ tool_token' = token_info.access
    /\ tool_pc' = "login_validate"
    /\ UNCHANGED <<now, callVars, otherVars, tool_arg>>

\* login raises AuthenticationError; the tool reports the failure
ToolLoginFail(why) ==
    /\ tool_pc = "login_post"
    /\ tool_pc' = "idle"
    /\ UNCHANGED <<now, authVars, callVars, otherVars, tool_arg, tool_token>>

\* minio_refresh_token is called with the refresh token rt and awaits the
\* token request of KeycloakAuth.refresh_token
ToolRefreshStart(rt) ==
    /\ tool_pc = "idle"
    /\ tool_pc' = "refresh_post"
    /\ tool_arg' = rt
    /\ tool_token' = 0
    /\ UNCHANGED <<now, authVars, callVars, otherVars>>

\* refresh_token returns a TokenInfo; the tool sets the client's token and
\* awaits the userinfo request of validate_token
ToolRefreshOk(with_refresh, expires_in) ==
    /\ tool_pc = "refresh_post"
    /\ issued < MaxTokens
    /\ LET token_info == refreshed_token(tool_arg, with_refresh, expires_in) IN
       /\ issued' = issued + 1
       /\ token_cache' = token_info
       /\ user_cache' = NoUser
       /\ current_token' = token_info.access
       /\ tool_token' = token_info.access
    /\ tool_pc' = "refresh_validate"
    /\ UNCHANGED <<now, callVars, otherVars, tool_arg>>

\* refresh_token raises AuthenticationError; the tool reports the failure
ToolRefreshFail(why) ==
    /\ tool_pc = "refresh_post"
    /\ tool_pc' = "idle"
    /\ tool_arg' = 0
    /\ UNCHANGED <<now, authVars, callVars, otherVars, tool_token>>

\* validate_token returns a UserInfo and caches it; the tool reports success
ToolValidateOk(decoded) ==
    /\ tool_pc \in {"login_validate", "refresh_validate"}
    /\ user_cache' = validated_user(tool_token, decoded)
    /\ tool_pc' = "idle"
    /\ tool_arg' = 0
    /\ tool_token' = 0
    /\ UNCHANGED <<now, token_cache, current_token, issued, callVars, otherVars>>

\* validate_token raises AuthenticationError; the tool reports the failure
ToolValidateFail(why) ==
    /\ tool_pc \in {"login_validate", "refresh_validate"}
    /\ tool_pc' = "idle"
    /\ tool_arg' = 0
    /\ tool_token' = 0
    /\ UNCHANGED <<now, authVars, callVars, otherVars>>

(* ------------- KeycloakAuth.login, refresh_token, validate_token ------ *)
\* the exception a failing token or userinfo request raises inside the try
\* block of login, refresh_token and validate_token: AuthenticationError on a
\* status other than 200, httpx.RequestError when the provider is
\* unreachable, a ValueError or KeyError on a malformed response
RaisedBy(why) ==
    IF why = "rejected" THEN "AuthenticationError"
    ELSE IF why = "unreachable" THEN "RequestError"
    ELSE "ValueError"

\* the except clauses without the final `except Exception`
AuthFailure_NoCatchAll(raised) ==
    IF raised = "RequestError"
    THEN [NoAuthResult EXCEPT !.kind = "AuthenticationError",
                              !.handler = "network"]
    ELSE [NoAuthResult EXCEPT !.kind = raised, !.handler = "none"]

\* the except clauses of login, refresh_token and validate_token: what the
\* method raises for an exception raised inside its try block
AuthFailure(raised) ==
    IF raised = "RequestError"
    THEN [NoAuthResult EXCEPT !.kind = "AuthenticationError",
                              !.handler = "network"]
    ELSE [NoAuthResult EXCEPT !.kind = "AuthenticationError",
                              !.handler = "unexpected"]

\* validate_token: what it returns or raises for the access token tok, given
\* the answer of the userinfo endpoint and the role claims of the token.
\* A token that does not decode gives empty roles; roles that are no list
\* make the concatenation after the inner try raise a TypeError.
validate_outcome(tok, endpoint, claims) ==
    IF endpoint # "accepted" THEN AuthFailure(RaisedBy(endpoint))
    ELSE IF claims = "malformed_roles" THEN AuthFailure("TypeError")
    ELSE [NoAuthResult EXCEPT !.kind = "user",
                              !.user = validated_user(tok, claims = "decoded")]

\* a direct caller is in no method of KeycloakAuth
AuthIdle(k) ==
    a_pc[k] \in {"idle", "login_done", "refresh_done", "validate_done"}

\* a direct caller starts a method of KeycloakAuth: the method sends its one
\* request to the provider and awaits the response
AuthCall(k, method, arg) ==
    /\ a_pc' = [a_pc EXCEPT ![k] = method]
    /\ a_arg' = [a_arg EXCEPT ![k] = arg]
    /\ a_result' = [a_result EXCEPT ![k] = NoAuthResult]
    /\ a_posts' = [a_posts EXCEPT ![k] = 1]
    /\ UNCHANGED <<now, authVars, callVars, toolVars, sseVars, utilVars>>

\* login(username, password) is called
LoginCall(k) ==
    /\ AuthIdle(k)
    /\ AuthCall(k, "login_post", 0)

\* refresh_token(rt) is called
RefreshCall(k, rt) ==
    /\ AuthIdle(k)
    /\ AuthCall(k, "refresh_post", rt)

\* validate_token(tok) is called
ValidateCall(k, tok) ==
    /\ AuthIdle(k)
    /\ AuthCall(k, "validate_get", tok)

\* login: the token response arrives; the TokenInfo is cached and returned
LoginReturn(k, expires_in) ==
    /\ a_pc[k] = "login_post"
    /\ issued < MaxTokens
    /\ LET token_info == login_token(expires_in) IN
       /\ issued' = issued + 1
       /\ token_cache' = token_info
       /\ user_cache' = NoUser
       /\ a_result' = [a_result EXCEPT ![k] =
              [NoAuthResult EXCEPT !.kind = "token", !.token = token_info,
                                   !.given_refresh = issued + 1]]
    /\ a_pc' = [a_pc EXCEPT ![k] = "login_done"]
    /\ UNCHANGED <<now, current_token, callVars, toolVars, sseVars, utilVars, a_arg, a_posts>>

\* login: the token request fails; the caches are left alone
LoginRaise(k, why) ==
    /\ a_pc[k] = "login_post"
    /\ a_result' = [a_result EXCEPT ![k] =
           AuthFailure(RaisedBy(why))]
    /\ a_pc' = [a_pc EXCEPT ![k] = "login_done"]
    /\ UNCHANGED <<now, authVars, callVars, toolVars, sseVars, utilVars, a_arg, a_posts>>

\* refresh_token: the token response arrives, with a new refresh token or
\* without one; the TokenInfo is cached and returned
RefreshReturn(k, with_refresh, expires_in) ==
    /\ a_pc[k] = "refresh_post"
    /\ issued < MaxTokens
    /\ LET token_info == refreshed_token(a_arg[k], with_refresh, expires_in)
       IN
       /\ issued' = issued + 1
       /\ token_cache' = token_info
       /\ user_cache' = NoUser
       /\ a_result' = [a_result EXCEPT ![k] =
              [NoAuthResult EXCEPT
                   !.kind = "token", !.token = token_info,
                   !.given_refresh = IF with_refresh THEN issued + 1 ELSE 0]]
    /\ a_pc' = [a_pc EXCEPT ![k] = "refresh_done"]
    /\ UNCHANGED <<now, current_token, callVars, toolVars, sseVars, utilVars, a_arg, a_posts>>

\* refresh_token: the token request fails; the caches are left alone
RefreshRaise(k, why) ==
    /\ a_pc[k] = "refresh_post"
    /\ a_result' = [a_result EXCEPT ![k] =
           AuthFailure(RaisedBy(why))]
    /\ a_pc' = [a_pc EXCEPT ![k] = "refresh_done"]
    /\ UNCHANGED <<now, authVars, callVars, toolVars, sseVars, utilVars, a_arg, a_posts>>

\* validate_token: the userinfo request is answered or fails; on success the
\* UserInfo is cached and returned
ValidateEnd(k, endpoint, claims) ==
    /\ a_pc[k] = "validate_get"
    /\ LET outcome == validate_outcome(a_arg[k], endpoint, claims) IN
       /\ a_result' = [a_result EXCEPT ![k] =
              [outcome EXCEPT !.endpoint = endpoint, !.claims = claims]]
       /\ user_cache' = IF outcome.kind = "user" THEN outcome.user
                        ELSE user_cache
    /\ a_pc' = [a_pc EXCEPT ![k] = "validate_done"]
    /\ UNCHANGED <<now, token_cache, current_token, issued, callVars,
                   toolVars, sseVars, utilVars, a_arg, a_posts>>

\* time passes
Tick ==
    /\ now < MaxNow
    /\ now' = now + 1
    /\ UNCHANGED <<authVars, callVars, toolVars, otherVars>>

(* ------------------------ SSEConnectionManager ------------------------ *)
\* the manager's two maps and the Queue objects, as one value
Registry ==
    [connections |-> connections, connection_info |-> connection_info,
     queues |-> queues, enqueued |-> enqueued]

\* the Queues the generators hold when their states are pcs
Held(pcs) ==
    {s_queue[g] : g \in {h \in StreamIds :
                            pcs[h] \in {"waiting", "yielded", "failing"}}}

\* the manager's maps and the Queue objects become those of R; a Queue that
\* neither the manager nor a running generator refers to is gone
SetRegistry(R, held) ==
    LET live == {R.connections[c] : c \in ConnIds} \cup held IN
    /\ connections' = R.connections
    /\ connection_info' = R.connection_info
    /\ queues' = [q \in QueueIds |->
                     IF q \in live THEN R.queues[q] ELSE <<>>]
    /\ enqueued' = [q \in QueueIds |->
                       IF q \in live THEN R.enqueued[q] ELSE <<>>]

\* send_to_connection putting the event at the front of the Queue
send_to_connection_Front(R, c, event) ==
    IF R.connections[c] # 0
    THEN LET q == R.connections[c] IN
         [R EXCEPT !.queues[q] = <<event>> \o @,
                   !.enqueued[q] = Append(@, event),
                   !.connection_info[c].events_sent = @ + 1]
    ELSE R

\* send_to_connection putting the event on the Queue of every connection
send_to_connection_All(R, c, event) ==
    [R EXCEPT !.queues = [q \in QueueIds |->
                             IF \E d \in ConnIds : R.connections[d] = q
                             THEN Append(R.queues[q], event)
                             ELSE R.queues[q]],
              !.enqueued = [q \in QueueIds |->
                               IF \E d \in ConnIds : R.connections[d] = q
                               THEN Append(R.enqueued[q], event)
                               ELSE R.enqueued[q]],
              !.connection_info = [d \in ConnIds |->
                                      IF R.connections[d] # 0
                                      THEN [R.connection_info[d] EXCEPT
                                               !.events_sent = @ + 1]
                                      ELSE R.connection_info[d]]]

\* send_to_connection putting the event without counting it
send_to_connection_Uncounted(R, c, event) ==
    IF R.connections[c] # 0
    THEN LET q == R.connections[c] IN
         [R EXCEPT !.queues[q] = Append(@, event),
                   !.enqueued[q] = Append(@, event)]
    ELSE R

\* SSEConnectionManager.send_to_connection.  The Queue is unbounded, so put
\* neither waits nor raises.
send_to_connection(R, c, event) ==
    IF R.connections[c] # 0
    THEN LET q == R.connections[c] IN
         [R EXCEPT !.queues[q] = Append(@, event),
                   !.enqueued[q] = Append(@, event),
                   !.connection_info[c].events_sent = @ + 1]
    ELSE R

\* disconnect deleting the entries before it sends the disconnected event,
\* which send_to_connection then drops
disconnect_RemoveFirst(R, c) ==
    IF R.connections[c] # 0
    THEN send_to_connection([R EXCEPT !.connections[c] = 0,
                                      !.connection_info[c] = NoInfo],
                            c, SSEEvent("disconnected", 0, TRUE))
    ELSE R

\* disconnect deleting the Queue of the id and keeping its metadata
disconnect_KeepInfo(R, c) ==
    IF R.connections[c] # 0
    THEN LET R1 == send_to_connection(R, c, SSEEvent("disconnected", 0, TRUE))
         IN [R1 EXCEPT !.connections[c] = 0]
    ELSE R

\* SSEConnectionManager.disconnect
disconnect(R, c) ==
    IF R.connections[c] # 0
    THEN LET R1 == send_to_connection(R, c, SSEEvent("disconnected", 0, TRUE))
         IN [R1 EXCEPT !.connections[c] = 0,
                       !.connection_info[c] = NoInfo]
    ELSE R

\* connect keeping the Queue of a connection that is already attached
connect_Reuse(R, c, q) ==
    LET R2 == [R EXCEPT !.connections[c] =
                            IF R.connections[c] # 0 THEN R.connections[c]
                            ELSE q,
                        !.connection_info[c] =
                            [present |-> TRUE, events_sent |-> 0]]
    IN send_to_connection(R2, c, SSEEvent("connected", 0, TRUE))

\* SSEConnectionManager.connect; q is the new asyncio.Queue()
connect(R, c, q) ==
    LET R1 == disconnect(R, c)
        R2 == [R1 EXCEPT !.connections[c] = q,
                         !.connection_info[c] =
                             [present |-> TRUE, events_sent |-> 0]]
    IN send_to_connection(R2, c, SSEEvent("connected", 0, TRUE))

\* broadcast leaving its loop after the first connection
broadcast_FirstOnly(R, ids, event) ==
    IF ids = {} THEN R
    ELSE LET c == CHOOSE x \in ids : \A y \in ids : x <= y
         IN send_to_connection(R, c, event)

\* SSEConnectionManager.broadcast: the loop over the ids in `ids`
RECURSIVE broadcast(_, _, _)
broadcast(R, ids, event) ==
    IF ids = {} THEN R
    ELSE LET c == CHOOSE x \in ids : \A y \in ids : x <= y
         IN broadcast(send_to_connection(R, c, event), ids \ {c}, event)

\* the events of a sequence that publishers sent
RECURSIVE PublishedIn(_)
PublishedIn(events) ==
    IF events = <<>> THEN 0
    ELSE (IF Head(events).type \in {"connected", "disconnected"} THEN 0 ELSE 1)
         + PublishedIn(Tail(events))

\* the events publishers have put on the Queues first .. MaxQueues
RECURSIVE PublishedCount(_)
PublishedCount(first) ==
    IF first > MaxQueues THEN 0
    ELSE PublishedIn(enqueued[first]) + PublishedCount(first + 1)

\* get_connection_stats reporting events_sent as the queue size
get_connection_stats_SentAsDepth(R) ==
    IF \E c \in ConnIds : R.connection_info[c].present /\ R.connections[c] = 0
    THEN [raised |-> "KeyError"]
    ELSE [raised |-> "none",
          total_connections |-> Cardinality({c \in ConnIds :
                                                R.connections[c] # 0}),
          connections |->
              [c \in {d \in ConnIds : R.connection_info[d].present} |->
                  [events_sent |-> R.connection_info[c].events_sent,
                   queue_size |-> R.connection_info[c].events_sent]]]

\* SSEConnectionManager.get_connection_stats: len(self.connections) and, for
\* every key of connection_info, its record with the qsize() of the Queue
\* that connections has under the same key; a key connections lacks raises
\* KeyError
get_connection_stats(R) ==
    IF \E c \in ConnIds : R.connection_info[c].present /\ R.connections[c] = 0
    THEN [raised |-> "KeyError"]
    ELSE [raised |-> "none",
          total_connections |-> Cardinality({c \in ConnIds :
                                                R.connections[c] # 0}),
          connections |->
              [c \in {d \in ConnIds : R.connection_info[d].present} |->
                  [events_sent |-> R.connection_info[c].events_sent,
                   queue_size |-> Len(R.queues[R.connections[c]])]]]

\* publishers may still send n events
MaySend(n) == PublishedCount(1) + n <= MaxSent

\* connect(connection_id) is called
Connect(c) ==
    /\ qnext < MaxQueues
    /\ qnext' = qnext + 1
    /\ SetRegistry(connect(Registry, c, qnext + 1), Held(s_pc))
    /\ UNCHANGED <<now, authVars, callVars, toolVars, methodVars, utilVars,
                   s_pc, s_conn, s_queue, s_out>>

\* disconnect(connection_id) is called
Disconnect(c) ==
    /\ SetRegistry(disconnect(Registry, c), Held(s_pc))
    /\ UNCHANGED <<now, authVars, callVars, toolVars, methodVars, utilVars, qnext,
                   s_pc, s_conn, s_queue, s_out>>

\* send_to_connection(connection_id, event) is called by a publisher
Send(c, event) ==
    /\ MaySend(1)
    /\ SetRegistry(send_to_connection(Registry, c, event), Held(s_pc))
    /\ UNCHANGED <<now, authVars, callVars, toolVars, methodVars, utilVars, qnext,
                   s_pc, s_conn, s_queue, s_out>>

\* broadcast(event, exclude) is called by a publisher.  With no attached id
\* outside exclude the loop body never runs and the call changes nothing,
\* so only the calls that reach a connection are steps.
Broadcast(event, exclude) ==
    /\ {c \in ConnIds : connections[c] # 0} \ exclude # {}
    /\ MaySend(Cardinality({c \in ConnIds : connections[c] # 0} \ exclude))
    /\ SetRegistry(broadcast(Registry,
                             {c \in ConnIds : connections[c] # 0} \ exclude,
                             event),
                   Held(s_pc))
    /\ UNCHANGED <<now, authVars, callVars, toolVars, methodVars, utilVars, qnext,
                   s_pc, s_conn, s_queue, s_out>>

(* -------------------- SSEConnectionManager.get_events ----------------- *)
\* the generator g yields this frame and is suspended in state `at`
Yield(g, frame, at) ==
    /\ s_out' = [s_out EXCEPT ![g] = Append(@, frame)]
    /\ s_pc' = [s_pc EXCEPT ![g] = at]

\* asyncio.wait_for(queue.get(), timeout=30.0) firing on a timer alone
HeartbeatDue_Timer(queue) == TRUE

\* asyncio.wait_for(queue.get(), timeout=30.0) raises TimeoutError: the get
\* did not complete, the Queue had nothing to give
HeartbeatDue(queue) == queue = <<>>

\* get_events answering an unknown id with an error frame
StreamStart_ErrorFrame(g, c) ==
    /\ s_pc[g] \in {"idle", "ended"}
    /\ s_conn' = [s_conn EXCEPT ![g] = c]
    /\ IF connections[c] = 0
       THEN /\ s_pc' = [s_pc EXCEPT ![g] = "ended"]
            /\ s_out' = [s_out EXCEPT ![g] = <<Frame("error", 0, 0)>>]
            /\ UNCHANGED s_queue
       ELSE /\ s_pc' = [s_pc EXCEPT ![g] = "waiting"]
            /\ s_out' = [s_out EXCEPT ![g] = <<>>]
            /\ s_queue' = [s_queue EXCEPT ![g] = connections[c]]
    /\ UNCHANGED <<now, authVars, callVars, toolVars, methodVars, utilVars,
                   connections, connection_info, queues, enqueued, qnext>>

\* a consumer that runs no generator calls get_events(connection_id): the
\* generator returns at once for an unknown id, else it takes the
\* connection's Queue and waits for an event
StreamStart(g, c) ==
    /\ s_pc[g] \in {"idle", "ended"}
    /\ s_conn' = [s_conn EXCEPT ![g] = c]
    /\ s_out' = [s_out EXCEPT ![g] = <<>>]
    /\ IF connections[c] = 0
       THEN /\ s_pc' = [s_pc EXCEPT ![g] = "ended"]
            /\ UNCHANGED s_queue
       ELSE /\ s_pc' = [s_pc EXCEPT ![g] = "waiting"]
            /\ s_queue' = [s_queue EXCEPT ![g] = connections[c]]
    /\ UNCHANGED <<now, authVars, callVars, toolVars, methodVars, utilVars,
                   connections, connection_info, queues, enqueued, qnext>>

\* get_events whose except Exception only logs: an event that does not
\* serialize ends the stream without a frame
StreamTake_Silent(g) ==
    /\ s_pc[g] = "waiting"
    /\ queues[s_queue[g]] # <<>>
    /\ LET q == s_queue[g]
           event == Head(queues[q])
           seq == Len(enqueued[q]) - Len(queues[q]) + 1
       IN
       /\ queues' = [queues EXCEPT ![q] = Tail(@)]
       /\ IF event.serializable
          THEN Yield(g, Frame(event.type, event.id, seq), "yielded")
          ELSE /\ s_pc' = [s_pc EXCEPT ![g] = "failing"]
               /\ UNCHANGED s_out
    /\ UNCHANGED <<now, authVars, callVars, toolVars, methodVars, utilVars,
                   connections, connection_info, enqueued, qnext,
                   s_conn, s_queue>>

\* queue.get() returns the oldest event of the generator's Queue; the
\* generator yields its frame, or the error frame when to_sse_format raises
StreamTake(g) ==
    /\ s_pc[g] = "waiting"
    /\ queues[s_queue[g]] # <<>>
    /\ LET q == s_queue[g]
           event == Head(queues[q])
           seq == Len(enqueued[q]) - Len(queues[q]) + 1
       IN
       /\ queues' = [queues EXCEPT ![q] = Tail(@)]
       /\ IF event.serializable
          THEN Yield(g, Frame(event.type, event.id, seq), "yielded")
          ELSE Yield(g, Frame("error", 0, seq), "failing")
    /\ UNCHANGED <<now, authVars, callVars, toolVars, methodVars, utilVars,
                   connections, connection_info, enqueued, qnext,
                   s_conn, s_queue>>

\* get_events without the inner except asyncio.TimeoutError: the timeout
\* reaches except Exception, which yields the error frame
StreamTimeout_AsError(g) ==
    /\ s_pc[g] = "waiting"
    /\ HeartbeatDue(queues[s_queue[g]])
    /\ Len(s_out[g]) < MaxFrames \/ connections[s_conn[g]] = 0
    /\ LET q == s_queue[g] IN
       Yield(g, Frame("error", 0, Len(enqueued[q])), "failing")
    /\ UNCHANGED <<now, authVars, callVars, toolVars, methodVars, utilVars,
                   connections, connection_info, queues, enqueued, qnext,
                   s_conn, s_queue>>

\* get_events awaiting queue.get() without a timeout: the wait never fires
StreamTimeout_Never(g) ==
    /\ FALSE
    /\ UNCHANGED vars

\* get_events counting the heartbeat it yields in events_sent
StreamTimeout_Counted(g) ==
    /\ s_pc[g] = "waiting"
    /\ HeartbeatDue(queues[s_queue[g]])
    /\ Len(s_out[g]) < MaxFrames \/ connections[s_conn[g]] = 0
    /\ LET q == s_queue[g] IN
       Yield(g, Frame("heartbeat", 0, Len(enqueued[q])), "yielded")
    /\ connection_info' =
           [c \in ConnIds |->
               IF connections[c] = s_queue[g]
               THEN [connection_info[c] EXCEPT !.events_sent = @ + 1]
               ELSE connection_info[c]]
    /\ UNCHANGED <<now, authVars, callVars, toolVars, methodVars, utilVars,
                   connections, queues, enqueued, qnext,
                   s_conn, s_queue>>

\* the wait times out: the generator yields a heartbeat frame.  MaxFrames
\* bounds the heartbeats of a connection that stays attached; after a detach
\* the heartbeat is the generator's last frame.
StreamTimeout(g) ==
    /\ s_pc[g] = "waiting"
    /\ HeartbeatDue(queues[s_queue[g]])
    /\ Len(s_out[g]) < MaxFrames \/ connections[s_conn[g]] = 0
    /\ LET q == s_queue[g] IN
       Yield(g, Frame("heartbeat", 0, Len(enqueued[q])), "yielded")
    /\ UNCHANGED <<now, authVars, callVars, toolVars, methodVars, utilVars,
                   connections, connection_info, queues, enqueued, qnext,
                   s_conn, s_queue>>

\* the consumer asks for the next frame: the loop goes on while the id is a
\* key of connections; else, and after the error frame, the finally clause
\* calls disconnect and the generator ends
StreamNext(g) ==
    /\ s_pc[g] \in {"yielded", "failing"}
    /\ IF s_pc[g] = "yielded" /\ connections[s_conn[g]] # 0
       THEN /\ s_pc' = [s_pc EXCEPT ![g] = "waiting"]
            /\ UNCHANGED <<connections, connection_info, queues, enqueued>>
       ELSE /\ s_pc' = [s_pc EXCEPT ![g] = "ended"]
            /\ SetRegistry(disconnect(Registry, s_conn[g]), Held(s_pc'))
    /\ UNCHANGED <<now, authVars, callVars, toolVars, methodVars, utilVars, qnext,
                   s_conn, s_queue, s_out>>

\* get_events without the finally clause on the cancellation path: the
\* generator ends and the connection stays registered
StreamCancel_NoCleanup(g) ==
    /\ s_pc[g] \in {"waiting", "yielded", "failing"}
    /\ s_pc' = [s_pc EXCEPT ![g] = "ended"]
    /\ UNCHANGED <<now, authVars, callVars, toolVars, methodVars, utilVars,
                   connections, connection_info, queues, enqueued, qnext,
                   s_conn, s_queue, s_out>>

\* the consumer cancels or closes the generator: the finally clause calls
\* disconnect and the generator ends
StreamCancel(g) ==
    /\ s_pc[g] \in {"waiting", "yielded", "failing"}
    /\ s_pc' = [s_pc EXCEPT ![g] = "ended"]
    /\ SetRegistry(disconnect(Registry, s_conn[g]), Held(s_pc'))
    /\ UNCHANGED <<now, authVars, callVars, toolVars, methodVars, utilVars, qnext,
                   s_conn, s_queue, s_out>>

\* the steps of request() calls
NextCall ==
    \/ \E c \in SequentialCalls, payload \in Payloads : StartRequest(c, payload)
    \/ \E c \in SequentialCalls, status \in Statuses, body \in Bodies :
           RecvResponse(c, status, body)
    \/ \E c \in SequentialCalls, e \in NetErrors : RecvNetworkError(c, e)
    \/ \E c \in SequentialCalls : RecvUnexpected(c)
    \/ \E c \in SequentialCalls : Wake(c)
    \/ \E c \in SequentialCalls, with_refresh \in BOOLEAN, expires_in \in ExpiresIn :
           RefreshOk(c, with_refresh, expires_in)
    \/ \E c \in SequentialCalls, why \in AuthFailures : RefreshFail(c, why)

\* the steps of the minio_login tool
NextLogin ==
    \/ ToolLoginStart
    \/ \E expires_in \in ExpiresIn : ToolLoginOk(expires_in)
    \/ \E why \in AuthFailures : ToolLoginFail(why)
    \/ \E decoded \in BOOLEAN : ToolValidateOk(decoded)
    \/ \E why \in AuthFailures : ToolValidateFail(why)

\* the steps of the minio_refresh_token tool up to its validate_token call
NextRefresh ==
    \/ \E rt \in RefreshInputs : ToolRefreshStart(rt)
    \/ \E with_refresh \in BOOLEAN, expires_in \in ExpiresIn :
           ToolRefreshOk(with_refresh, expires_in)
    \/ \E why \in AuthFailures : ToolRefreshFail(why)

\* request() calls of a client whose user logs in with minio_login
Next == NextCall \/ NextLogin

Spec == Init /\ [][Next]_vars

\* the steps of direct calls of login, refresh_token and validate_token
NextAuth ==
    \/ \E k \in AuthIds : LoginCall(k)
    \/ \E k \in AuthIds, rt \in RefreshInputs : RefreshCall(k, rt)
    \/ \E k \in AuthIds, tok \in AccessTokens : ValidateCall(k, tok)
    \/ \E k \in AuthIds, expires_in \in ExpiresIn : LoginReturn(k, expires_in)
    \/ \E k \in AuthIds, why \in AuthFailures : LoginRaise(k, why)
    \/ \E k \in AuthIds, with_refresh \in BOOLEAN, expires_in \in ExpiresIn :
           RefreshReturn(k, with_refresh, expires_in)
    \/ \E k \in AuthIds, why \in AuthFailures : RefreshRaise(k, why)
    \/ \E k \in AuthIds, endpoint \in EndpointAnswers, claims \in RoleClaims :
           ValidateEnd(k, endpoint, claims)
    \/ Tick

\* KeycloakAuth under direct calls of its methods, in any order
SpecAuth == Init /\ [][NextAuth]_vars

\* the events publishers send: a tool call, and a tool result whose data
\* json.dumps accepts or not
Published ==
    {SSEEvent("tool_call", 1, TRUE)}
        \cup {SSEEvent("tool_result", 2, ok) : ok \in BOOLEAN}

\* the steps of the connection manager and of its event generators
NextSSE ==
    \/ \E c \in ConnIds : Connect(c)
    \/ \E c \in ConnIds : Disconnect(c)
    \/ \E c \in ConnIds, event \in Published : Send(c, event)
    \/ \E event \in Published, exclude \in SUBSET ConnIds :
           Broadcast(event, exclude)
    \/ \E g \in StreamIds, c \in ConnIds : StreamStart(g, c)
    \/ \E g \in StreamIds : StreamTake(g)
    \/ \E g \in StreamIds : StreamTimeout(g)
    \/ \E g \in StreamIds : StreamNext(g)
    \/ \E g \in StreamIds : StreamCancel(g)

\* the connection manager with its publishers and consumers
SpecSSE == Init /\ [][NextSSE]_vars

\* the steps of the connection manager's callers other than consumers
NextRegistry ==
    \/ \E c \in ConnIds : Connect(c)
    \/ \E c \in ConnIds : Disconnect(c)
    \/ \E c \in ConnIds, event \in Published : Send(c, event)
    \/ \E event \in Published, exclude \in SUBSET ConnIds :
           Broadcast(event, exclude)

\* the connection manager with its publishers, before any consumer reads
SpecRegistry == Init /\ [][NextRegistry]_vars

\* the steps of the connection manager and of its event generators when
\* publishers address one connection at a time.  broadcast is a loop of
\* send_to_connection calls that no other task interrupts, so these steps
\* reach the states NextSSE reaches.
NextStream ==
    \/ \E c \in ConnIds : Connect(c)
    \/ \E c \in ConnIds : Disconnect(c)
    \/ \E c \in ConnIds, event \in Published : Send(c, event)
    \/ \E g \in StreamIds, c \in ConnIds : StreamStart(g, c)
    \/ \E g \in StreamIds : StreamTake(g)
    \/ \E g \in StreamIds : StreamTimeout(g)
    \/ \E g \in StreamIds : StreamNext(g)
    \/ \E g \in StreamIds : StreamCancel(g)

\* the connection manager with its consumers and single-connection publishers
SpecStream == Init /\ [][NextStream]_vars

\* the same when every generator is driven on: the event loop resumes a get
\* that has an event to return, the timer of wait_for fires, and the
\* consumer keeps asking for the next frame
SpecStreamFair ==
    /\ SpecStream
    /\ \A g \in StreamIds :
           /\ WF_vars(StreamTake(g))
           /\ WF_vars(StreamTimeout(g))
           /\ WF_vars(StreamNext(g))

(* ------------------------ SSEEvent.to_sse_format ---------------------- *)
\* the keys a payload may have: one of its own and the two to_sse_format adds
PayloadKeys == {"tool_name", "timestamp", "event_id"}

\* Python values of a payload: two strings, a tuple, and a set, which
\* json.dumps does not accept
PyStr(v) == [kind |-> "str", v |-> v]
PyValues == {PyStr(1), PyStr(2), [kind |-> "tuple", v |-> 1],
             [kind |-> "set", v |-> 1]}

\* the payloads: dicts from some of the keys to values
Payloads_data == UNION {[K -> PyValues] : K \in SUBSET PayloadKeys}

\* the events given to to_sse_format; event_id 0 is the empty string and
\* retry 0 is None
Events ==
    [type : {"tool_result"}, data : Payloads_data, timestamp : {1, 2},
     event_id : {0, 1}, retry : {0, 3000}]

\* json.dumps of a value: a str becomes a JSON string, a tuple a JSON array
json_dumps_value(v) ==
    IF v.kind = "tuple" THEN [kind |-> "array", v |-> v.v]
    ELSE [kind |-> "string", v |-> v.v]

\* json.loads of a JSON value: a string becomes a str, an array a list
json_loads_value(j) ==
    IF j.kind = "array" THEN [kind |-> "list", v |-> j.v]
    ELSE [kind |-> "str", v |-> j.v]

\* json.dumps of a dict with str keys: the JSON object, on one line
json_dumps(d) == [k \in DOMAIN d |-> json_dumps_value(d[k])]

\* json.loads of a JSON object
json_loads(text) == [k \in DOMAIN text |-> json_loads_value(text[k])]

\* the dict to_sse_format serializes: {**self.data, "timestamp": ...,
\* "event_id": ...}; the later keys replace equal keys of the payload
merged_data(ev) ==
    [k \in DOMAIN ev.data \cup {"timestamp", "event_id"} |->
        IF k = "timestamp" THEN PyStr(ev.timestamp)
        ELSE IF k = "event_id" THEN PyStr(ev.event_id)
        ELSE ev.data[k]]

\* SSEEvent.to_sse_format: the id line unless event_id is empty, the event
\* line, the retry line unless retry is None or 0, one data line per line of
\* the JSON text (json.dumps writes no line break, so one), or the TypeError
\* json.dumps raises
to_sse_format(ev) ==
    IF \E k \in DOMAIN merged_data(ev) : merged_data(ev)[k].kind = "set"
    THEN [NoWire EXCEPT !.raised = "TypeError"]
    ELSE [raised |-> "none", id |-> ev.event_id, event |-> ev.type,
          retry |-> ev.retry, data |-> <<json_dumps(merged_data(ev))>>]

\* what a reader gets from the data lines of a frame: the lines joined and
\* parsed as JSON
parsed_data(wire) == json_loads(wire.data[1])

\* to_sse_format is called on an event
Format(ev) ==
    /\ e_event' = ev
    /\ e_wire' = to_sse_format(ev)
    /\ UNCHANGED <<now, authVars, callVars, toolVars, methodVars, sseVars,
                   rl_clock, rl_requests, rl_allowed, rl_result>>

\* the steps of a caller that formats events
NextEvent == \E ev \in Events : Format(ev)

\* SSEEvent.to_sse_format under every event of Events
SpecEvent == Init /\ [][NextEvent]_vars

\* the steps of two request() calls of one client that overlap: each is
\* answered 200 or 401, and the refresh of a call returns or raises
NextConcurrent ==
    \/ \E c \in CallIds : StartRequest(c, "none")
    \/ \E c \in CallIds, status \in {200, 401} : RecvResponse(c, status, "json")
    \/ \E c \in CallIds, with_refresh \in BOOLEAN, expires_in \in ExpiresIn :
           RefreshOk(c, with_refresh, expires_in)
    \/ \E c \in CallIds, why \in AuthFailures : RefreshFail(c, why)
    \/ NextLogin

\* overlapping request() calls of a client whose user logs in with minio_login
SpecConcurrent == Init /\ [][NextConcurrent]_vars

\* the steps that read or write the tokens of a session: a request() call
\* answered 200 or 401 with its refreshes, and both session tools
NextTokens ==
    \/ \E c \in SequentialCalls : StartRequest(c, "none")
    \/ \E c \in SequentialCalls, status \in {200, 401} :
           RecvResponse(c, status, "json")
    \/ \E c \in SequentialCalls, with_refresh \in BOOLEAN,
          expires_in \in ExpiresIn :
           RefreshOk(c, with_refresh, expires_in)
    \/ \E c \in SequentialCalls, why \in AuthFailures : RefreshFail(c, why)
    \/ NextLogin
    \/ NextRefresh

\* request() calls of a client whose user logs in and refreshes with the
\* tools, as far as the tokens go
SpecTokens == Init /\ [][NextTokens]_vars

(* ------------------------ RateLimiter.is_allowed ---------------------- *)
\* the values time.time() takes, in seconds: the first call, a minute after
\* it, and just under and exactly an hour after it
ClockValues == {0, 60, 3599, 3600}

\* the entries of a list of times that are later than t, in order
Later(times, t) ==
    LET after(x) == x > t IN SelectSeq(times, after)

\* is_allowed letting a call pass when the minute count equals the limit
is_allowed_OneMore(R, client_id, time) ==
    LET kept == Later(R[client_id].times, time - HourWindow)
        minute_requests == Len(Later(kept, time - MinuteWindow))
        hour_requests == Len(kept)
        min(a, b) == IF a <= b THEN a ELSE b
    IN
    IF minute_requests > max_requests_per_minute
    THEN [requests |-> [R EXCEPT ![client_id] =
                            [present |-> TRUE, times |-> kept]],
          allowed |-> FALSE, remaining |-> 0]
    ELSE IF hour_requests >= max_requests_per_hour
    THEN [requests |-> [R EXCEPT ![client_id] =
                            [present |-> TRUE, times |-> kept]],
          allowed |-> FALSE, remaining |-> 0]
    ELSE [requests |-> [R EXCEPT ![client_id] =
                            [present |-> TRUE, times |-> Append(kept, time)]],
          allowed |-> TRUE,
          remaining |-> min(max_requests_per_minute - minute_requests - 1,
                            max_requests_per_hour - hour_requests - 1)]

\* RateLimiter.is_allowed(client_id) when time.time() returns time, on the
\* map R of self.requests: the map afterwards and the pair returned.  The
\* list of the client is created if missing and loses its entries of an hour
\* ago or older, also when the call is denied.
is_allowed(R, client_id, time) ==
    LET kept == Later(R[client_id].times, time - HourWindow)
        minute_requests == Len(Later(kept, time - MinuteWindow))
        hour_requests == Len(kept)
        min(a, b) == IF a <= b THEN a ELSE b
    IN
    IF minute_requests >= max_requests_per_minute
    THEN [requests |-> [R EXCEPT ![client_id] =
                            [present |-> TRUE, times |-> kept]],
          allowed |-> FALSE, remaining |-> 0]
    ELSE IF hour_requests >= max_requests_per_hour
    THEN [requests |-> [R EXCEPT ![client_id] =
                            [present |-> TRUE, times |-> kept]],
          allowed |-> FALSE, remaining |-> 0]
    ELSE [requests |-> [R EXCEPT ![client_id] =
                            [present |-> TRUE, times |-> Append(kept, time)]],
          allowed |-> TRUE,
          remaining |-> min(max_requests_per_minute - minute_requests - 1,
                            max_requests_per_hour - hour_requests - 1)]

\* a caller calls is_allowed(client_id)
IsAllowed(client_id) ==
    LET r == is_allowed(rl_requests, client_id, rl_clock) IN
    /\ rl_requests' = r.requests
    /\ rl_result' = [rl_result EXCEPT ![client_id] =
                        [allowed |-> r.allowed, remaining |-> r.remaining]]
    /\ rl_allowed' = [rl_allowed EXCEPT ![client_id] =
                         IF r.allowed THEN Append(@, rl_clock) ELSE @]
    /\ UNCHANGED <<now, authVars, callVars, toolVars, methodVars, sseVars,
                   e_event, e_wire, rl_clock>>

\* time passes between two calls of is_allowed
ClockAdvance(time) ==
    /\ time > rl_clock
    /\ rl_clock' = time
    /\ UNCHANGED <<now, authVars, callVars, toolVars, methodVars, sseVars,
                   e_event, e_wire, rl_requests, rl_allowed, rl_result>>

\* the steps of the callers of the RateLimiter
NextRate ==
    \/ \E client_id \in ClientIds : IsAllowed(client_id)
    \/ \E time \in ClockValues : ClockAdvance(time)

\* the RateLimiter under calls for two client ids at non-decreasing times
SpecRate == Init /\ [][NextRate]_vars

\* the steps of request() calls and of both session tools
NextSession == NextCall \/ NextLogin \/ NextRefresh

\* request() calls of a client whose user logs in and refreshes with the tools
SpecSession == Init /\ [][NextSession]_vars

(* ------------------------------ claims -------------------------------- *)
\* the event that opened the trace of call c: how its latest attempt ended
LatestEnd(c) == trace[c][1]

\* the latest attempt of call c ended with a response of this kind
EndedWithStatus(c, lo, hi) ==
    /\ trace[c] # <<>>
    /\ LatestEnd(c).ev = "recv"
    /\ lo <= LatestEnd(c).val
    /\ LatestEnd(c).val < hi

\* C1: a request() call makes at most RetryCount (3) HTTP attempts, whatever
\* mix of 401, 5xx and network failures it retries, and its attempts are
\* sequential: an attempt is in flight only while the call awaits it, and a
\* new one is sent only when every earlier one has ended.
C1_AttemptBudget ==
    \A c \in CallIds :
        /\ Len(sent[c]) <= RetryCount
        /\ Len(sent[c]) - Len(outcomes[c]) \in {0, 1}
        /\ (Len(sent[c]) - Len(outcomes[c]) = 1) <=> (pc[c] = "sending")

\* a call that used its three attempts on a 401, a 5xx and a network failure
C1_Witness ==
    \E c \in CallIds :
        /\ pc[c] = "done"
        /\ outcomes[c] = <<"auth", "server", "network">>
        /\ Len(sent[c]) = RetryCount

\* C2: a response with a status in [400,500) other than 401 ends the call on
\* the attempt that received it, whatever the attempt index: nothing follows
\* it (no refresh call, no sleep, no further attempt) and the call is over
\* with that status.
C2_ClientErrorEndsCall ==
    \A c \in CallIds :
        (EndedWithStatus(c, 400, 500) /\ LatestEnd(c).val # 401)
            => /\ Len(trace[c]) = 1
               /\ pc[c] = "done"
               /\ result[c].status_code = LatestEnd(c).val
               /\ Len(sent[c]) = Len(outcomes[c])

\* a 404 on the second attempt of a call
C2_Witness ==
    \E c \in CallIds :
        /\ EndedWithStatus(c, 404, 405)
        /\ LatestEnd(c).n = 1
        /\ pc[c] = "done"

\* C3: when the first attempt of a call returns 401 and the refresh that
\* follows fails, the call ends with the 401: the failed refresh is the last
\* thing the call does, no attempt and no refresh call follow it.
C3_FailedRefreshEndsCall ==
    \A c \in CallIds :
        (\E i \in 1 .. Len(trace[c]) :
             trace[c][i].ev = "refresh_fail" /\ trace[c][i].n = 0)
            => /\ pc[c] = "done"
               /\ trace[c][Len(trace[c])].ev = "refresh_fail"
               /\ result[c].status_code = 401
               /\ Len(sent[c]) = 1

\* C4: whenever an attempt returns 401 with attempts left in the budget and
\* a credential cached, the step that receives the 401 calls refresh_token
\* with the cached refresh token, and the attempt sent once that refresh is
\* over carries the access token the refresh obtained.
C4_RefreshOn401 ==
    [][\A c \in CallIds :
         /\ ( /\ pc[c] = "sending"
              /\ Len(outcomes'[c]) = Len(outcomes[c]) + 1
              /\ trace'[c][1].ev = "recv"
              /\ trace'[c][1].val = 401
              /\ attempt[c] < RetryCount - 1
              /\ token_cache # NoToken )
            => /\ pc'[c] = "refreshing"
               /\ refresh_arg'[c] = token_cache.refresh
         /\ (pc[c] = "refreshing" /\ pc'[c] = "sending")
            => /\ issued' = issued + 1
               /\ headers'[c].authorization = token_cache'.access
      ]_vars

\* what call c did after the 401 of its first attempt, when the refresh was
\* called and succeeded and the second attempt is awaited
RefreshedAfterFirst401(c) ==
    /\ pc[c] = "sending"
    /\ Len(trace[c]) = 4
    /\ trace[c][1].ev = "recv" /\ trace[c][1].val = 401 /\ trace[c][1].n = 0
    /\ trace[c][2].ev = "refresh"
    /\ trace[c][3].ev = "refresh_ok"
    /\ trace[c][4].ev = "send" /\ trace[c][4].n = 1

\* C5: a call whose first attempt returns 401, whose refresh succeeds and
\* whose second attempt returns 200 returns a success outcome, having made
\* exactly two attempts and exactly one refresh call.
C5_RefreshThenSuccess ==
    [][\A c \in CallIds :
         ( /\ RefreshedAfterFirst401(c)
           /\ Len(outcomes'[c]) = Len(outcomes[c]) + 1
           /\ trace'[c][1].ev = "recv"
           /\ trace'[c][1].val = 200 )
         => /\ pc'[c] = "done"
            /\ result'[c].kind = "response"
            /\ result'[c].success
            /\ Len(sent'[c]) = 2
            /\ refreshes'[c] = 1
      ]_vars

\* every attempt call c has completed so far ended the way `class` says
AllOutcomes(c, class) ==
    /\ outcomes[c] # <<>>
    /\ \A i \in 1 .. Len(outcomes[c]) : outcomes[c][i] = class

\* C6: when every attempt of a call returns a status >= 500, the call goes on
\* until it has used the whole budget: it ends only after exactly RetryCount
\* (3) attempts, never a fourth, with a failure that reports the status code
\* of the final attempt.
C6_ServerErrorsExhaustBudget ==
    \A c \in CallIds :
        AllOutcomes(c, "server")
            => /\ Len(sent[c]) <= RetryCount
               /\ (Len(outcomes[c]) < RetryCount) => (pc[c] # "done")
               /\ (pc[c] = "done")
                     => /\ Len(sent[c]) = RetryCount
                        /\ Len(outcomes[c]) = RetryCount
                        /\ result[c].kind = "error"
                        /\ result[c].status_code = LatestEnd(c).val
                        /\ LatestEnd(c).n = RetryCount - 1

\* a call that ended after three 5xx responses, the last of them a 503
C6_Witness ==
    \E c \in CallIds :
        /\ pc[c] = "done"
        /\ outcomes[c] = <<"server", "server", "server">>
        /\ result[c].status_code = 503

\* C7: when every attempt of a call fails at the network level, the call
\* ends only after exactly RetryCount (3) attempts, with a MinIOAPIError that
\* carries the error of the last attempt.
C7_NetworkErrorsExhaustBudget ==
    \A c \in CallIds :
        AllOutcomes(c, "network")
            => /\ Len(sent[c]) <= RetryCount
               /\ (Len(outcomes[c]) < RetryCount) => (pc[c] # "done")
               /\ (pc[c] = "done")
                     => /\ Len(sent[c]) = RetryCount
                        /\ result[c].kind = "error"
                        /\ result[c].error = "network"
                        /\ LatestEnd(c).ev = "neterr"
                        /\ LatestEnd(c).n = RetryCount - 1
                        /\ result[c].cause = LatestEnd(c).val

\* a call that ended after three network failures, the last with error 2
C7_Witness ==
    \E c \in CallIds :
        /\ pc[c] = "done"
        /\ outcomes[c] = <<"network", "network", "network">>
        /\ result[c].cause = 2

\* C8: every failure a request() call ends with, whatever its kind, carries
\* the correlation id the call sent in the X-Correlation-ID header of its
\* attempts.
C8_FailureCarriesCorrelationId ==
    \A c \in CallIds :
        (pc[c] = "done" /\ result[c].kind = "error")
            => result[c].correlation_id = sent[c][1].correlation

\* C9: all attempts of one call carry the same X-Correlation-ID, the one
\* generated when the call started; the attempts of a call differ in no
\* header other than Authorization.
C9_RetryKeepsHeaders ==
    \A c \in CallIds :
        \A i \in 1 .. Len(sent[c]) :
            /\ sent[c][i].correlation = _generate_correlation_id
            /\ sent[c][i].correlation = sent[c][1].correlation
            /\ sent[c][i].content_type = sent[c][1].content_type
            /\ sent[c][i].accept = sent[c][1].accept
            /\ sent[c][i].user_agent = sent[c][1].user_agent
            /\ pc[c] \in {"sending", "sleeping", "refreshing"}
                  => /\ correlation_id[c] = sent[c][1].correlation
                     /\ headers[c] = sent[c][Len(sent[c])]

\* a file upload retried after a successful refresh: the second attempt
\* carries another access token than the first
C9_Witness ==
    \E c \in CallIds :
        /\ Len(sent[c]) >= 2
        /\ sent[c][1].authorization # 0
        /\ sent[c][2].authorization # 0
        /\ sent[c][2].authorization # sent[c][1].authorization
        /\ sent[c][1].content_type = "absent"
        /\ refreshes[c] = 1

\* C10: every APIResponse a call returns has success = TRUE exactly when its
\* status code is in [200,300), whatever the body of the response.
C10_SuccessIffStatus2xx ==
    \A c \in CallIds :
        result[c].kind = "response"
            => (result[c].success
                    <=> (200 <= result[c].status_code
                         /\ result[c].status_code < 300))

\* the latest attempt of call c failed with a status >= 500 or at the
\* network level
EndedTransient(c) ==
    /\ trace[c] # <<>>
    /\ \/ LatestEnd(c).ev = "neterr"
       \/ LatestEnd(c).ev = "recv" /\ LatestEnd(c).val >= 500

\* C11: after a failed attempt with index n, failed by a status >= 500 or at
\* the network level, the call sleeps 1 s when n = 0 and 2 s when n = 1
\* (RetryDelay * 2^n, n counted in the shared budget) before the next
\* attempt, the sleep is the only thing between the two attempts, and after
\* the last attempt of the budget the call does not sleep.
C11_ExponentialBackoff ==
    \A c \in CallIds :
        /\ EndedTransient(c)
              => IF LatestEnd(c).n < RetryCount - 1
                 THEN /\ Len(trace[c]) >= 2
                      /\ trace[c][2].ev = "sleep"
                      /\ trace[c][2].n = LatestEnd(c).n
                      /\ (LatestEnd(c).n = 0) => (trace[c][2].val = 1)
                      /\ (LatestEnd(c).n = 1) => (trace[c][2].val = 2)
                      /\ trace[c][2].val = RetryDelay * (2 ^ LatestEnd(c).n)
                      /\ (pc[c] = "sleeping")
                            => (wake_at[c] = now + trace[c][2].val)
                      /\ (Len(trace[c]) >= 3)
                            => /\ Len(trace[c]) = 3
                               /\ trace[c][3].ev = "send"
                               /\ trace[c][3].n = LatestEnd(c).n + 1
                 ELSE /\ Len(trace[c]) = 1
                      /\ pc[c] = "done"
        /\ \A i \in 1 .. Len(trace[c]) :
              (trace[c][i].ev = "sleep") => (i = 2 /\ EndedTransient(c))
        /\ (pc[c] = "sleeping") => (Len(trace[c]) = 2)

\* a call sleeping 2 s after a 5xx on its second attempt, the first attempt
\* having been used by a 401
C11_Witness ==
    \E c \in CallIds :
        /\ pc[c] = "sleeping"
        /\ outcomes[c] = <<"auth", "server">>
        /\ wake_at[c] = now + 2

\* C12: the cached UserInfo is absent or was derived by validate_token from
\* the access token of the TokenInfo that is cached now.
C12_IdentityMatchesCredential ==
    user_cache # NoUser => user_cache.of_token = token_cache.access

\* C14: when a refresh called by a request fails, no TokenInfo remains
\* cached once the failure has been handled.
C14_FailedRefreshDiscardsCredential ==
    [][\A c \in CallIds :
         (pc[c] = "refreshing" /\ pc'[c] # "refreshing" /\ issued' = issued)
             => token_cache' = NoToken
      ]_vars

\* C16: a cached token is refreshed after a 401 exactly when
\* now + 60 >= expires_at, equality included: is_token_expired is true if and
\* only if the token expires within 60 s.
C16_ExpiredIffWithinSkew ==
    [][\A c \in CallIds :
         ( /\ pc[c] = "sending"
           /\ Len(outcomes'[c]) = Len(outcomes[c]) + 1
           /\ trace'[c][1].ev = "recv"
           /\ trace'[c][1].val = 401
           /\ attempt[c] < RetryCount - 1
           /\ token_cache # NoToken )
         => /\ (pc'[c] = "refreshing") <=> (now + 60 >= token_cache.expires_at)
            /\ is_token_expired(token_cache)
                   <=> (now + 60 >= token_cache.expires_at)
      ]_vars

\* a refresh started for a token that expires in exactly 60 s
C16_Witness ==
    \E c \in CallIds :
        /\ pc[c] = "refreshing"
        /\ Len(trace[c]) = 2
        /\ token_cache # NoToken
        /\ now + 60 = token_cache.expires_at

\* C13: the cached TokenInfo goes from absent to present only in a step in
\* which a login returns; a refresh never caches a TokenInfo when none was
\* cached.
C13_OnlyLoginCreatesCredential ==
    [][(token_cache = NoToken /\ token_cache' # NoToken)
          => \E k \in AuthIds :
                 a_pc[k] = "login_post" /\ a_pc'[k] = "login_done"
      ]_vars

\* C15: a login or refresh that fails, whatever made it fail, raises
\* AuthenticationError and nothing else, and has made exactly one request to
\* the identity provider.
C15_FailureIsAuthenticationError ==
    \A k \in AuthIds :
        /\ a_pc[k] \in {"login_post", "refresh_post"} => a_posts[k] = 1
        /\ ( /\ a_pc[k] \in {"login_done", "refresh_done"}
             /\ a_result[k].kind # "token" )
           => /\ a_result[k].kind = "AuthenticationError"
              /\ a_posts[k] = 1

\* a login that failed on something other than a network error (a rejection
\* or a malformed response)
C15_Witness ==
    \E k \in AuthIds :
        /\ a_pc[k] = "login_done"
        /\ a_result[k].kind = "AuthenticationError"
        /\ a_result[k].handler = "unexpected"

\* C17: the TokenInfo a successful refresh returns and caches has the
\* refresh token of the provider's response when the response has one and
\* the refresh token passed to refresh_token otherwise, and its expires_at is
\* the time of the response plus expires_in.
C17_RefreshedCredential ==
    [][\A k \in AuthIds :
         (a_pc[k] = "refresh_post" /\ a_result'[k].kind = "token")
         => LET t == a_result'[k].token
                given == a_result'[k].given_refresh
            IN /\ t.refresh = IF given # 0 THEN given ELSE a_arg[k]
               /\ t.expires_at = now + t.expires_in
               /\ token_cache' = t
      ]_vars

\* a refresh at time 1 whose response had no refresh token: the input is kept
C17_Witness ==
    \E k \in AuthIds :
        /\ a_pc[k] = "refresh_done"
        /\ a_result[k].kind = "token"
        /\ a_result[k].given_refresh = 0
        /\ a_result[k].token.refresh = a_arg[k]
        /\ a_result[k].token.access # a_arg[k]
        /\ a_result[k].token.expires_at = a_result[k].token.expires_in + 1

\* C18: when the userinfo endpoint accepts the token, validate_token
\* succeeds whatever the role claims of the token are, with empty roles when
\* they cannot be decoded; it fails only when the endpoint did not accept
\* the token.
C18_DecodeFailureDegrades ==
    \A k \in AuthIds :
        a_pc[k] = "validate_done"
            => /\ (a_result[k].endpoint = "accepted")
                     => /\ a_result[k].kind = "user"
                        /\ (a_result[k].claims # "decoded")
                              => (a_result[k].user.roles = "empty")
               /\ (a_result[k].kind # "user")
                     => (a_result[k].endpoint # "accepted")

\* a frame made from an event of the Queue, neither a heartbeat nor the error
\* frame
IsRealFrame(frame) == frame.type \notin {"heartbeat", "error"}

\* a frame for which the generator took an event off its Queue
IsTakenFrame(frame) == frame.type # "heartbeat"

\* the generator of consumer g is running
Running(g) == s_pc[g] \in {"waiting", "yielded", "failing"}

\* C19: at every point the real (non-heartbeat) events a connection's
\* generator has emitted are a prefix of the events put on the connection's
\* Queue, in put order: the i-th real frame is the i-th event put, and the
\* events not yet taken are exactly what the Queue holds, in put order.
C19_EmittedIsPrefixOfEnqueued ==
    \A g \in StreamIds :
        Running(g)
            => LET q == s_queue[g]
                   real == SelectSeq(s_out[g], IsRealFrame)
                   taken == Len(SelectSeq(s_out[g], IsTakenFrame))
               IN /\ taken + Len(queues[q]) = Len(enqueued[q])
                  /\ queues[q] = SubSeq(enqueued[q], taken + 1,
                                        Len(enqueued[q]))
                  /\ \A i \in 1 .. Len(real) :
                        /\ real[i].seq = i
                        /\ real[i].type = enqueued[q][i].type
                        /\ real[i].id = enqueued[q][i].id

\* a generator that emitted the connected event and two published events,
\* the tool result before the tool call
C19_Witness ==
    \E g \in StreamIds :
        /\ Running(g)
        /\ LET real == SelectSeq(s_out[g], IsRealFrame) IN
           /\ Len(real) = 3
           /\ real[1].type = "connected"
           /\ real[2].type = "tool_result"
           /\ real[3].type = "tool_call"

\* C20: a generator emits a heartbeat only when its Queue is empty, so every
\* event put on the Queue before the heartbeat was emitted before it and
\* every event emitted after it was put after it: no heartbeat stands
\* between two events that were both on the Queue; and no Queue ever holds a
\* heartbeat.
C20_HeartbeatOnlyWhenQueueEmpty ==
    /\ \A q \in QueueIds : \A i \in 1 .. Len(queues[q]) :
           queues[q][i].type # "heartbeat"
    /\ \A q \in QueueIds : \A i \in 1 .. Len(enqueued[q]) :
           enqueued[q][i].type # "heartbeat"
    /\ \A g \in StreamIds : \A j \in 1 .. Len(s_out[g]) :
           s_out[g][j].type = "heartbeat"
               => /\ s_out[g][j].seq
                        = Len(SelectSeq(SubSeq(s_out[g], 1, j), IsTakenFrame))
                  /\ \A i \in 1 .. Len(s_out[g]) :
                        IsTakenFrame(s_out[g][i])
                            => IF i < j
                               THEN s_out[g][i].seq <= s_out[g][j].seq
                               ELSE s_out[g][i].seq > s_out[g][j].seq

\* a generator that emitted a heartbeat between the connected event and a
\* published event
C20_Witness ==
    \E g \in StreamIds :
        /\ Len(s_out[g]) = 3
        /\ s_out[g][1].type = "connected"
        /\ s_out[g][2].type = "heartbeat"
        /\ s_out[g][3].type = "tool_call"

\* C21: whichever way a generator that took an attached connection's Queue
\* ends (the loop ends after a detach, the consumer cancels or closes it, an
\* error frame was produced), the step that ends it performs disconnect: in
\* the state where it has ended its connection id is no key of connections
\* or connection_info.
C21_EndedStreamIsDetached ==
    [][\A g \in StreamIds :
          (Running(g) /\ s_pc'[g] = "ended")
              => /\ connections'[s_conn[g]] = 0
                 /\ connection_info'[s_conn[g]] = NoInfo]_vars

\* a generator that ended after the error frame while a second connection
\* is still attached; its own id is no longer registered
C21_Witness ==
    \E g \in StreamIds :
        /\ s_pc[g] = "ended"
        /\ s_out[g] # <<>>
        /\ s_out[g][Len(s_out[g])].type = "error"
        /\ connections[s_conn[g]] = 0
        /\ \E c \in ConnIds : connections[c] # 0

\* C22: a send_to_connection(c, event) call on an attached id puts the event
\* at the end of that connection's Queue and changes no other Queue and no
\* key of the registry; on an id that is not attached it changes nothing at
\* all (no Queue, no registry entry, no generator), and it never raises.
C22_SendReachesOneConnection ==
    [][\A c \in ConnIds, event \in Published :
          Send(c, event)
              => IF connections[c] # 0
                 THEN /\ queues'[connections[c]]
                            = Append(queues[connections[c]], event)
                      /\ \A q \in QueueIds \ {connections[c]} :
                            queues'[q] = queues[q]
                      /\ connections' = connections
                      /\ \A d \in ConnIds \ {c} :
                            connection_info'[d] = connection_info[d]
                      /\ connection_info'[c].present
                 ELSE UNCHANGED sseVars]_vars

\* two attached connections; a tool call was sent to the first only, the
\* Queue of the second holds nothing but its connected event
C22_Witness ==
    /\ connections[1] # 0
    /\ connections[2] # 0
    /\ queues[connections[1]]
           = <<SSEEvent("connected", 0, TRUE), SSEEvent("tool_call", 1, TRUE)>>
    /\ queues[connections[2]] = <<SSEEvent("connected", 0, TRUE)>>

\* C23: connect(c, ...) called in any reachable state first tears an
\* attached c down (its old Queue gets the disconnected event and is no
\* longer the Queue of c), then registers c with the new Queue; when connect
\* returns, that Queue holds exactly the connected event, nothing of the
\* previous connection, events_sent is 1, and no other id has changed.
C23_AttachStartsFresh ==
    qnext < MaxQueues
        => \A c \in ConnIds :
               LET old == connections[c]
                   new == qnext + 1
                   R == connect(Registry, c, new)
               IN /\ R.connections[c] = new
                  /\ new # old
                  /\ R.queues[new] = <<SSEEvent("connected", 0, TRUE)>>
                  /\ R.enqueued[new] = <<SSEEvent("connected", 0, TRUE)>>
                  /\ R.connection_info[c]
                         = [present |-> TRUE, events_sent |-> 1]
                  /\ \A d \in ConnIds \ {c} :
                         /\ R.connections[d] = connections[d]
                         /\ R.connection_info[d] = connection_info[d]
                  /\ \A q \in QueueIds \ {new} :
                         R.queues[q]
                             = IF q = old /\ old # 0
                               THEN Append(queues[q],
                                           SSEEvent("disconnected", 0, TRUE))
                               ELSE queues[q]

\* an id attached again while a generator consumes its first connection:
\* the generator's Queue ends with the disconnected event, the id's new
\* Queue holds the connected event only
C23_Witness ==
    \E g \in StreamIds :
        /\ Running(g)
        /\ connections[s_conn[g]] # 0
        /\ connections[s_conn[g]] # s_queue[g]
        /\ queues[connections[s_conn[g]]] = <<SSEEvent("connected", 0, TRUE)>>
        /\ enqueued[s_queue[g]] # <<>>
        /\ enqueued[s_queue[g]][Len(enqueued[s_queue[g]])].type
               = "disconnected"
        /\ \E i \in 1 .. Len(enqueued[s_queue[g]]) :
               enqueued[s_queue[g]][i].type = "tool_call"

\* C24: disconnect(c) called in any reachable state on an attached id puts
\* the disconnected event at the end of its Queue and deletes c from
\* connections and connection_info, leaving the other ids and Queues alone;
\* on an id that is not attached it changes nothing and raises nothing.
\* Hence disconnect applied twice gives what disconnect applied once gives.
C24_DetachIsIdempotent ==
    \A c \in ConnIds :
        LET old == connections[c]
            R == disconnect(Registry, c)
        IN /\ IF old # 0
              THEN /\ R.connections[c] = 0
                   /\ R.connection_info[c] = NoInfo
                   /\ \A d \in ConnIds \ {c} :
                          /\ R.connections[d] = connections[d]
                          /\ R.connection_info[d] = connection_info[d]
                   /\ R.queues[old]
                          = Append(queues[old],
                                   SSEEvent("disconnected", 0, TRUE))
                   /\ \A q \in QueueIds \ {old} : R.queues[q] = queues[q]
              ELSE R = Registry
           /\ disconnect(R, c) = R

\* a generator still waiting on the Queue of an id that was detached under
\* it: the disconnected event is the last one on its Queue and the id is
\* not registered
C24_Witness ==
    \E g \in StreamIds :
        /\ s_pc[g] = "waiting"
        /\ connections[s_conn[g]] = 0
        /\ connection_info[s_conn[g]] = NoInfo
        /\ queues[s_queue[g]] # <<>>
        /\ queues[s_queue[g]][Len(queues[s_queue[g]])].type = "disconnected"

\* C25: a broadcast(event, exclude) call puts the same event (same event_id)
\* exactly once at the end of the Queue of every id that is attached when
\* the call is made and is not in exclude, and changes the Queue of no
\* other connection, excluded ones included; it attaches and detaches
\* nothing.
C25_BroadcastReachesAllButExcluded ==
    [][\A event \in Published, exclude \in SUBSET ConnIds :
          Broadcast(event, exclude)
              => /\ connections' = connections
                 /\ \A c \in ConnIds :
                        connections[c] # 0
                            => IF c \in exclude
                               THEN /\ queues'[connections[c]]
                                          = queues[connections[c]]
                                    /\ connection_info'[c]
                                          = connection_info[c]
                               ELSE /\ queues'[connections[c]]
                                          = Append(queues[connections[c]],
                                                   event)
                                    /\ connection_info'[c].events_sent
                                          = connection_info[c].events_sent + 1
                 /\ \A q \in QueueIds :
                        q \notin {connections[c] : c \in ConnIds}
                            => queues'[q] = queues[q]]_vars

\* a tool result broadcast to two attached connections: each Queue holds
\* it once, after its connected event
C25_Witness ==
    /\ connections[1] # 0
    /\ connections[2] # 0
    /\ \A c \in ConnIds :
           queues[connections[c]] = <<SSEEvent("connected", 0, TRUE),
                                      SSEEvent("tool_result", 2, TRUE)>>

\* the generator of consumer g runs on an id that is not attached
RunsDetached(g) == Running(g) /\ connections[s_conn[g]] = 0

\* C26: once the id of a running generator has been detached, the generator
\* ends unless the id is attached again: it takes what is left for it or
\* times out once, yields, and on its next resumption finds the id gone and
\* leaves the loop.  It emits no endless run of heartbeats.
C26_DetachedStreamEnds ==
    \A g \in StreamIds :
        RunsDetached(g)
            ~> \/ s_pc[g] = "ended"
               \/ Running(g) /\ connections[s_conn[g]] # 0

\* a generator waiting on the empty Queue of a connection that was replaced
\* and then detached: only the timeout can wake it
C26_Witness ==
    \E g \in StreamIds :
        /\ s_pc[g] = "waiting"
        /\ connections[s_conn[g]] = 0
        /\ queues[s_queue[g]] = <<>>
        /\ Len(s_out[g]) >= MaxFrames

\* C27: whenever a generator that waits on an empty Queue goes on without
\* an event having arrived and without being cancelled, that is, whenever
\* its 30 s wait times out, the frame it emits next is a heartbeat, and the
\* heartbeat is put on no Queue.  In particular the frame after the
\* connected frame is a heartbeat when nothing else was put on the Queue
\* since connect.
C27_IdleTimeoutYieldsHeartbeat ==
    [][\A g \in StreamIds :
          (/\ s_pc[g] = "waiting"
           /\ queues[s_queue[g]] = <<>>
           /\ s_pc'[g] \notin {"waiting", "ended"})
              => /\ s_pc'[g] = "yielded"
                 /\ Len(s_out'[g]) = Len(s_out[g]) + 1
                 /\ SubSeq(s_out'[g], 1, Len(s_out[g])) = s_out[g]
                 /\ s_out'[g][Len(s_out'[g])].type = "heartbeat"
                 /\ queues' = queues
                 /\ enqueued' = enqueued]_vars

\* a generator whose connection got nothing but the connected event: its
\* second frame is a heartbeat
C27_Witness ==
    \E g \in StreamIds :
        /\ s_pc[g] = "yielded"
        /\ connections[s_conn[g]] = s_queue[g]
        /\ enqueued[s_queue[g]] = <<SSEEvent("connected", 0, TRUE)>>
        /\ Len(s_out[g]) = 2
        /\ s_out[g][1].type = "connected"
        /\ s_out[g][2].type = "heartbeat"

\* the last frame the generator of consumer g has yielded is the error frame
EndsWithError(frames) ==
    frames # <<>> /\ frames[Len(frames)].type = "error"

\* C28 as stated: a generator that its consumer cancels, and one that ends
\* after an event failed to serialize, has emitted an error frame as its
\* last frame when it ends.
C28_ErrorFrameBeforeEnd ==
    [][\A g \in StreamIds :
          (StreamCancel(g) \/ (s_pc[g] = "failing" /\ s_pc'[g] = "ended"))
              => EndsWithError(s_out'[g])]_vars

\* C28 as amended: when the event a waiting generator takes does not
\* serialize, the generator yields the error frame and its next step ends
\* it, so the error frame is its last frame; a cancellation by the consumer
\* ends the generator without any further frame.
C28_ErrorFrameOnSerializationFailure ==
    [][\A g \in StreamIds :
          /\ (/\ s_pc[g] = "waiting"
              /\ queues[s_queue[g]] # <<>>
              /\ ~Head(queues[s_queue[g]]).serializable
              /\ s_pc'[g] \notin {"waiting", "ended"})
                 => /\ s_pc'[g] = "failing"
                    /\ Len(s_out'[g]) = Len(s_out[g]) + 1
                    /\ SubSeq(s_out'[g], 1, Len(s_out[g])) = s_out[g]
                    /\ EndsWithError(s_out'[g])
          /\ (s_pc[g] = "failing" /\ s_pc'[g] # "failing")
                 => /\ s_pc'[g] = "ended"
                    /\ s_out'[g] = s_out[g]
                    /\ EndsWithError(s_out'[g])
          /\ StreamCancel(g) => s_out'[g] = s_out[g]]_vars

\* a generator suspended at the error frame it yielded for a tool result
\* that does not serialize, after the connected frame
C28_Witness ==
    \E g \in StreamIds :
        /\ s_pc[g] = "failing"
        /\ Len(s_out[g]) = 2
        /\ s_out[g][1].type = "connected"
        /\ s_out[g][2].type = "error"
        /\ enqueued[s_queue[g]][2] = SSEEvent("tool_result", 2, FALSE)

\* C29: get_events(c) for an id that is not attached, be it never attached
\* or detached when an earlier stream on it ended, returns at once: the
\* generator ends having yielded no frame, and connections,
\* connection_info and the Queues are what they were.
C29_ConsumeUnattachedYieldsNothing ==
    [][\A g \in StreamIds, c \in ConnIds :
          (StreamStart(g, c) /\ connections[c] = 0)
              => /\ s_pc'[g] = "ended"
                 /\ s_out'[g] = <<>>
                 /\ UNCHANGED <<connections, connection_info, queues,
                                enqueued, qnext>>]_vars

\* a consumer whose get_events call ended without a frame while no id had
\* ever been attached
C29_Witness ==
    \E g \in StreamIds :
        /\ s_pc[g] = "ended"
        /\ s_out[g] = <<>>
        /\ s_conn[g] \in ConnIds
        /\ qnext = 0

\* the frames the running generators have yielded from the Queue q: all of
\* them when heartbeats is TRUE, else those made from an event of q
EmittedFrom(q, heartbeats) ==
    IF \E g \in StreamIds : Running(g) /\ s_queue[g] = q
    THEN LET g == CHOOSE h \in StreamIds : Running(h) /\ s_queue[h] = q
         IN IF heartbeats THEN Len(s_out[g])
            ELSE Len(SelectSeq(s_out[g], IsTakenFrame))
    ELSE 0

\* events_sent of an id that stays attached to the same connection does not
\* decrease in a step
CountGrows ==
    \A c \in ConnIds :
        (connections[c] # 0 /\ connections'[c] = connections[c])
            => connection_info'[c].events_sent
                   >= connection_info[c].events_sent

\* C30 as stated: events_sent of an attached connection never decreases
\* and always equals the number of events its event stream has emitted
\* (with or without the heartbeats).
C30_CountEqualsEmitted ==
    /\ [][CountGrows]_vars
    /\ [](\A c \in ConnIds :
             connections[c] # 0
                 => connection_info[c].events_sent
                        \in {EmittedFrom(connections[c], TRUE),
                             EmittedFrom(connections[c], FALSE)})

\* C30 as amended: events_sent of an attached connection never decreases
\* and always equals the number of events put on the connection's Queue
\* since connect, the connected event included, whether or not a stream has
\* emitted them; heartbeats are not counted.
C30_CountEqualsEnqueued ==
    /\ [][CountGrows]_vars
    /\ [](\A c \in ConnIds :
             /\ connection_info[c].present <=> connections[c] # 0
             /\ connections[c] # 0
                    => connection_info[c].events_sent
                           = Len(enqueued[connections[c]]))

\* an attached connection that counts three events while its stream has
\* emitted the connected frame and a heartbeat
C30_Witness ==
    \E g \in StreamIds :
        /\ Running(g)
        /\ connections[s_conn[g]] = s_queue[g]
        /\ connection_info[s_conn[g]].events_sent = 3
        /\ Len(s_out[g]) = 2
        /\ s_out[g][2].type = "heartbeat"

\* C31: in every reachable state get_connection_stats returns without
\* raising; its count is the number of attached ids, it has an entry for
\* each attached id and for no other, and the queue size of an entry is the
\* number of events put on the connection's Queue minus the number its
\* stream has taken from it.
C31_StatsSnapshot ==
    LET stats == get_connection_stats(Registry)
        attached == {c \in ConnIds : connections[c] # 0}
    IN /\ stats.raised = "none"
       /\ stats.total_connections = Cardinality(attached)
       /\ DOMAIN stats.connections = attached
       /\ \A c \in attached :
              stats.connections[c].queue_size
                  = Len(enqueued[connections[c]])
                        - EmittedFrom(connections[c], FALSE)

\* two attached connections; the stream of one has taken the connected
\* event and left a tool call on the Queue, which makes its queue size 1
C31_Witness ==
    \E g \in StreamIds :
        /\ Running(g)
        /\ connections[s_conn[g]] = s_queue[g]
        /\ \A c \in ConnIds : connections[c] # 0
        /\ Len(s_out[g]) = 1
        /\ queues[s_queue[g]] = <<SSEEvent("tool_call", 1, TRUE)>>
        /\ get_connection_stats(Registry).connections[s_conn[g]].queue_size = 1

\* C32: for every event that to_sse_format serializes, parsing the joined
\* data lines as JSON gives an object that has every key of the event's
\* payload with the payload's value, and timestamp and event_id equal to the
\* event's own fields.
C32_DataRoundTrip ==
    e_wire.raised = "none" /\ e_wire.data # <<>>
        => LET obj == parsed_data(e_wire) IN
           /\ \A k \in DOMAIN e_event.data :
                  k \in DOMAIN obj /\ obj[k] = e_event.data[k]
           /\ obj["timestamp"] = PyStr(e_event.timestamp)
           /\ obj["event_id"] = PyStr(e_event.event_id)

\* generator g ends in this step while its id is registered with a Queue
\* other than the one g consumes
EndsBesideNewer(g) ==
    /\ Running(g)
    /\ s_pc'[g] = "ended"
    /\ connections[s_conn[g]] # 0
    /\ connections[s_conn[g]] # s_queue[g]

\* C33: when a stream ends while its connection id has been re-attached, the
\* newer connection stays registered: the cleanup of a stream detaches only
\* the connection whose Queue the stream consumed.
C33_EndKeepsNewerConnection ==
    [][\A g \in StreamIds :
           EndsBesideNewer(g)
               => /\ connections'[s_conn[g]] = connections[s_conn[g]]
                  /\ connection_info'[s_conn[g]].present]_vars

\* C34: no two request() calls have a refresh_token call in flight with the
\* same refresh token: a refresh token of the cache is submitted to the
\* identity provider at most once at a time.
C34_OneRefreshInFlight ==
    \A c \in CallIds, d \in CallIds :
        c # d /\ pc[c] = "refreshing" /\ pc[d] = "refreshing"
            => refresh_arg[c] # refresh_arg[d]

\* call c has ended on a response: the status of that response
EndedOnResponse(c) ==
    pc[c] = "done" /\ trace[c] # <<>> /\ trace[c][1].ev = "recv"

\* C35: a request() call that ends on a response with status >= 400 raises a
\* MinIOAPIError that carries this status and the correlation id of the
\* call, and a call that ends on a response with status < 400 returns the
\* outcome with this status; no returned outcome has a status >= 400.
C35_ErrorStatusIsRaised ==
    \A c \in CallIds :
        /\ EndedOnResponse(c) =>
               /\ result[c].status_code = trace[c][1].val
               /\ result[c].kind =
                      IF trace[c][1].val >= 400 THEN "error" ELSE "response"
               /\ result[c].kind = "error"
                      => result[c].correlation_id = sent[c][1].correlation
        /\ result[c].kind = "response" => result[c].status_code < 400

\* a call whose last attempt of the budget was answered 401, raised with 401
C35_Witness ==
    \E c \in CallIds :
        /\ EndedOnResponse(c)
        /\ Len(sent[c]) = RetryCount
        /\ trace[c][1].val = 401
        /\ result[c].kind = "error"

\* C36: whenever the client's access token is set, it is the access token of
\* the TokenInfo in the cache of KeycloakAuth.
C36_ClientTokenIsCached ==
    current_token # 0 => current_token = token_cache.access

\* the client holds the token of a refresh that a request() call made while
\* the user's own refresh was waiting for the provider
C36_Witness ==
    /\ current_token # 0
    /\ tool_pc = "refresh_post"
    /\ \E c \in CallIds : \E i \in DOMAIN trace[c] :
           trace[c][i].ev = "refresh_ok" /\ trace[c][i].val = current_token

\* the minio_login call in progress reports a failure in this step: login
\* raised, or validate_token raised after login had returned
LoginReportsFailure ==
    \/ \E why \in AuthFailures : ToolLoginFail(why)
    \/ tool_pc = "login_validate" /\ \E why \in AuthFailures : ToolValidateFail(why)

\* C37: when minio_login reports a failure, the session is what it was when
\* the call began.  Every token the provider issues is new, so a session
\* that holds the token this call obtained is not the session the call
\* found: at the report neither the cache nor the client holds that token.
C37_FailedLoginKeepsSession ==
    [][LoginReportsFailure /\ tool_token # 0
           => token_cache'.access # tool_token /\ current_token' # tool_token]_vars

\* C38: events_sent of an attached connection equals the number of events
\* its generator has taken off the connection's Queue plus the number of
\* events the Queue holds; the heartbeats the generator yields are in neither
\* number, and the error frame of an event that did not serialize adds
\* nothing to the take of that event.
C38_CountIsTakenPlusDepth ==
    \A c \in ConnIds :
        connections[c] # 0
            => connection_info[c].events_sent
                   = EmittedFrom(connections[c], FALSE)
                         + Len(queues[connections[c]])

\* an attached connection whose generator has yielded its first event, a
\* heartbeat and the error frame of the second event, with a third event
\* waiting in the Queue
C38_Witness ==
    \E g \in StreamIds :
        /\ s_pc[g] = "failing"
        /\ connections[s_conn[g]] = s_queue[g]
        /\ Len(s_out[g]) = 3
        /\ s_out[g][2].type = "heartbeat"
        /\ s_out[g][3].type = "error"
        /\ Len(queues[s_queue[g]]) = 1
        /\ connection_info[s_conn[g]].events_sent = 3

\* the calls allowed for client_id at a time t with a <= t < a + window
AllowedIn(client_id, a, window) ==
    Cardinality({i \in DOMAIN rl_allowed[client_id] :
                    /\ a <= rl_allowed[client_id][i]
                    /\ rl_allowed[client_id][i] < a + window})

\* is_allowed(client_id) is called in this step and denies the call
Denies(client_id) == IsAllowed(client_id) /\ ~rl_result'[client_id].allowed

\* C39: under is_allowed calls at non-decreasing times, the calls allowed for
\* one client id in any window of 60 seconds are at most
\* max_requests_per_minute and in any window of 3600 seconds at most
\* max_requests_per_hour; a denied call returns (False, 0) and its time is
\* not added to the client's list; a call for one client id changes neither
\* the list of another client id nor what is_allowed would return for it.
C39_RateLimits ==
    /\ [](\A c \in ClientIds, a \in ClockValues :
             /\ AllowedIn(c, a, MinuteWindow) <= max_requests_per_minute
             /\ AllowedIn(c, a, HourWindow) <= max_requests_per_hour)
    /\ [][\A c \in ClientIds :
              /\ Denies(c) =>
                     /\ rl_result'[c] = [allowed |-> FALSE, remaining |-> 0]
                     /\ rl_requests'[c].times
                            = Later(rl_requests[c].times, rl_clock - HourWindow)
              /\ IsAllowed(c) =>
                     \A d \in ClientIds \ {c} :
                         /\ rl_requests'[d] = rl_requests[d]
                         /\ is_allowed(rl_requests', d, rl_clock).allowed
                                = is_allowed(rl_requests, d, rl_clock).allowed
                         /\ is_allowed(rl_requests', d, rl_clock).remaining
                                = is_allowed(rl_requests, d, rl_clock).remaining
       ]_vars

\* one client is denied by the hour limit alone, a minute after its latest
\* allowed call, while the other client is still allowed
C39_Witness ==
    \E c \in ClientIds, d \in ClientIds :
        /\ c # d
        /\ rl_result[c] = [allowed |-> FALSE, remaining |-> 0]
        /\ Len(rl_allowed[c]) = max_requests_per_hour
        /\ Len(rl_requests[c].times) = max_requests_per_hour
        /\ Len(Later(rl_requests[c].times, rl_clock - MinuteWindow)) = 0
        /\ rl_result[d].allowed
        /\ rl_result[d].remaining = 0

\* C40: connections and connection_info have the same keys in every
\* reachable state of the connection manager.
C40_SameKeys ==
    \A c \in ConnIds : connection_info[c].present <=> connections[c] # 0

\* one id is attached, and the other has been attached and then detached
\* by the end of its generator; two Queues have been created
C40_Witness ==
    \E c \in ConnIds, d \in ConnIds, g \in StreamIds :
        /\ c # d
        /\ connections[c] # 0
        /\ connection_info[c].present
        /\ connections[d] = 0
        /\ ~connection_info[d].present
        /\ s_pc[g] = "ended" /\ s_conn[g] = d /\ s_queue[g] # 0
        /\ qnext = MaxQueues

=============================================================================
